---- MODULE Spec2Model ----
(***************************************************************************)
(* State-machine model of the structural analysis core of basic-mcp-server *)
(* (call-graph builder and its export, pattern aggregation, generic       *)
(* chunker, extractor dispatch, the codebase-analysis run loop and the     *)
(* requests of the enhanced analysis handler).                             *)
(*                                                                         *)
(* Conventions                                                             *)
(*  - a qualified name "N.Alpha.M1" is the sequence <<"N","Alpha","M1">>   *)
(*    of its dot-free segments, so f"{a}.{b}" is a \o b and                *)
(*    s.split(".")[-1] is the last segment;                                *)
(*  - a Python dict of keyword attributes is a function from attribute     *)
(*    name to value; dict.update is MergeAttrs;                            *)
(*  - networkx keeps nodes and edges in insertion order: both are          *)
(*    sequences of entries, and add_node/add_edge are written out as the   *)
(*    lookup-then-update-or-append they perform.                           *)
(***************************************************************************)
EXTENDS Integers, Sequences, FiniteSets, TLC

VARIABLES
    \* ---- CallGraphAnalyzer (one instance, one build at a time)
    cg_pc,          \* position of analyze_codebase: idle/files/cross/results/done
    cg_files,       \* the file records of this build taken so far
    call_graph,     \* self.call_graph: [nodes, edges, log]
    cg_unreadable,  \* paths open() fails on during the cross-file pass
    cg_result,      \* the dict returned by _generate_analysis_results
    \* ---- PatternExtractor
    pat_pc,         \* position of extract_patterns: idle/collect/done
    patterns_found, \* self.patterns_found
    pat_observed,   \* history: the raw observations the last merge consumed
    call_graph_results,     \* the call_graph_results extract_patterns was handed
    \* ---- CodeChunker._chunk_generic
    ch_pc,          \* position: idle/loop/last/done
    ch_lines,       \* content.split('\n') as the lengths of the lines
    ch_idx,         \* index of the line the for loop takes next
    current_chunk,  \* current_chunk, as indices into ch_lines
    current_size,   \* current_size
    chunks,         \* the chunks list
    \* ---- CodeExtractor.extract_knowledge_from_file
    ex_pc,          \* idle/returned/raised
    ex_call,        \* the arguments and the file system the call met
    ex_ran,         \* the extractors the call ran, in order
    ex_result,      \* the dict the call returned
    \* ---- CodebaseAnalysisHandler.handle
    run_pc,         \* idle/loop/limit/returned
    run_count,      \* history: runs started so far
    run_params,     \* [resume_from_checkpoint, file_limit]
    checkpoints,    \* the files of <output_dir>/checkpoints
    processed_files,        \* processed_files
    all_files_to_process,   \* all_files_to_process
    run_idx,        \* index of the file the loop takes next
    file_results,   \* file_results
    error_files,    \* error_files
    file_count,     \* file_count
    run_result,     \* the dict handle returned
    run_inherited,  \* history: files the loaded checkpoint's run had done
    last_step,      \* history: the last file step and the lists before it
    \* ---- CallGraphAnalyzer.export_graph_to_json
    cg_export,      \* the data written to output_path
    \* ---- EnhancedRepositoryAnalysisHandler.handle, two requests
    hd_pc,          \* per request: idle/files/analyzed/returned
    hd_file_infos,  \* per request: its local file_infos
    hd_results,     \* per request: what it got from the analyzer and extractor
    \* ---- CodeChunker.chunk_file
    cf_pc,          \* idle/generic/returned/raised
    cf_call,        \* the arguments and the file the call met
    cf_chunks       \* the list the call returned

graphVars == <<cg_pc, cg_files, call_graph, cg_unreadable, cg_result>>

patternVars == <<pat_pc, patterns_found, pat_observed, call_graph_results>>

chunkVars == <<ch_pc, ch_lines, ch_idx, current_chunk, current_size, chunks>>

extractVars == <<ex_pc, ex_call, ex_ran, ex_result>>

runVars ==
    <<run_pc, run_count, run_params, checkpoints, processed_files,
      all_files_to_process, run_idx, file_results, error_files, file_count,
      run_result, run_inherited, last_step>>

outputVars == <<cg_export, hd_pc, hd_file_infos, hd_results>>

fileChunkVars == <<cf_pc, cf_call, cf_chunks>>

vars ==
    <<graphVars, patternVars, chunkVars, extractVars, runVars, outputVars,
      fileChunkVars>>

\* what the steps of one component leave alone: the other components
GraphFrame ==
    UNCHANGED <<patternVars, chunkVars, extractVars, runVars, outputVars, fileChunkVars>>
PatternFrame ==
    UNCHANGED <<graphVars, chunkVars, extractVars, runVars, outputVars, fileChunkVars>>
ChunkFrame ==
    UNCHANGED <<graphVars, patternVars, extractVars, runVars, outputVars, fileChunkVars>>
ExtractFrame ==
    UNCHANGED <<graphVars, patternVars, chunkVars, runVars, outputVars, fileChunkVars>>
RunFrame ==
    UNCHANGED <<graphVars, patternVars, chunkVars, extractVars, outputVars, fileChunkVars>>
FileChunkFrame ==
    UNCHANGED <<graphVars, patternVars, extractVars, runVars, outputVars>>

TopN == 10          \* central components kept by _generate_analysis_results
min_chunk_size == 100
max_chunk_size == 2000
overlap_lines == 5
checkpoint_every == 50      \* a checkpoint is saved every so many files
checkpoint_keep == 100      \* entries of each list a checkpoint keeps
batch_size == 100           \* files of one batch of the file loop

(***************************************************************************)
(* Bounds                                                                  *)
(***************************************************************************)
MaxFiles == 2       \* file records handed to one call-graph build
MaxFolderFiles == 4  \* file records of one build over the folder layout
MaxRequestFiles == 2 \* files of the repository of one handler request
MaxObs == 3         \* raw pattern observations of one extract_patterns call
MaxLines == 7       \* lines of a content handed to the generic chunker
MaxDeclLines == 5   \* lines of a declaration text
NumFiles == 3       \* supported code files of the analysed repository
MaxRuns == 3        \* runs of the codebase analysis on that repository

(***************************************************************************)
(* Generic helpers                                                         *)
(***************************************************************************)
Last(s) == s[Len(s)]

RECURSIVE SumSeq(_)
SumSeq(s) == IF s = <<>> THEN 0 ELSE s[1] + SumSeq(Tail(s))

EmptyAttrs == [k \in {} |-> ""]

\* dict.update(new): keys of new override, the others are kept
MergeAttrs(old, new) ==
    [k \in (DOMAIN old) \cup (DOMAIN new) |->
        IF k \in DOMAIN new THEN new[k] ELSE old[k]]

\* dict.get(key, default)
Get(d, key, default) == IF key \in DOMAIN d THEN d[key] ELSE default

(***************************************************************************)
(* networkx.DiGraph as used by CallGraphAnalyzer                           *)
(***************************************************************************)
EmptyGraph == [nodes |-> <<>>, edges |-> <<>>, log |-> <<>>, elog |-> <<>>]

NodeIds(G) == {G.nodes[i].id : i \in 1..Len(G.nodes)}

HasNode(G, n) == n \in NodeIds(G)

NodeData(G, n) == (CHOOSE i \in 1..Len(G.nodes) : G.nodes[i].id = n)

NodeAttrs(G, n) == G.nodes[NodeData(G, n)].attrs

\* mutant of UpsertNode: the lookup is dropped and every insertion appends
UpsertNode_AlwaysAppend(nodes, n, attrs) ==
    Append(nodes, [id |-> n, attrs |-> attrs])

\* DiGraph.add_node on the node dict: update the entry when the key is
\* present, append a new entry otherwise
UpsertNode(nodes, n, attrs) ==
    IF \E i \in 1..Len(nodes) : nodes[i].id = n
    THEN [i \in 1..Len(nodes) |->
            IF nodes[i].id = n
            THEN [id |-> n, attrs |-> MergeAttrs(nodes[i].attrs, attrs)]
            ELSE nodes[i]]
    ELSE Append(nodes, [id |-> n, attrs |-> attrs])

\* call_graph.add_node(n, **attrs); log is the history of insert calls
AddNode(G, n, attrs) ==
    [G EXCEPT !.nodes = UpsertNode(G.nodes, n, attrs),
              !.log   = Append(G.log, [id |-> n, attrs |-> attrs])]

HasEdge(G, u, v) == \E i \in 1..Len(G.edges) : G.edges[i].src = u /\ G.edges[i].dst = v

\* DiGraph.add_edge on the adjacency dict: one entry per ordered pair,
\* whose data dict is updated when the pair is present
UpsertEdge(edges, u, v, attrs) ==
    IF \E i \in 1..Len(edges) : edges[i].src = u /\ edges[i].dst = v
    THEN [i \in 1..Len(edges) |->
            IF edges[i].src = u /\ edges[i].dst = v
            THEN [src |-> u, dst |-> v, attrs |-> MergeAttrs(edges[i].attrs, attrs)]
            ELSE edges[i]]
    ELSE Append(edges, [src |-> u, dst |-> v, attrs |-> attrs])

\* call_graph.add_edge(u, v, **attrs): endpoints that are missing are
\* created with no attributes; elog is the history of the calls
AddEdge(G, u, v, attrs) ==
    LET G1 == IF HasNode(G, u) THEN G ELSE AddNode(G, u, EmptyAttrs)
        G2 == IF HasNode(G1, v) THEN G1 ELSE AddNode(G1, v, EmptyAttrs)
    IN  [G2 EXCEPT !.edges = UpsertEdge(G2.edges, u, v, attrs),
                   !.elog  = Append(G2.elog, [src |-> u, dst |-> v, attrs |-> attrs])]

EdgeKinds(G, u, v) ==
    {Get(G.edges[i].attrs, "type", "unknown") :
        i \in {j \in 1..Len(G.edges) : G.edges[j].src = u /\ G.edges[j].dst = v}}

HasEdgeOfKind(G, u, v, kind) == kind \in EdgeKinds(G, u, v)

(***************************************************************************)
(* File records (the dicts CodeExtractor returns) handed to the builder    *)
(***************************************************************************)
NoMethods == <<>>

Method(name) == [name |-> name, is_async |-> FALSE]

\* a class entry of a file record; inheritance is filled by the C#
\* extractor, bases by the Python extractor, the is_* flags by the
\* TypeScript extractor
ClassDecl(name, parents, methods) ==
    [name |-> name, inheritance |-> parents, bases |-> parents,
     methods |-> methods,
     is_component |-> FALSE, is_service |-> FALSE, is_module |-> FALSE]

FileRecord(path, lang, ns, classes, interfaces, di, functions, imports) ==
    [file_path |-> path, code_language |-> lang, namespace |-> ns,
     classes |-> classes, interfaces |-> interfaces,
     di_registrations |-> di, functions |-> functions, imports |-> imports,
     is_angular |-> FALSE]

\* namespace Unknown is what extract_csharp_knowledge stores when the file
\* declares no namespace
UnknownNamespace == <<"Unknown">>

\* a.cs: namespace N { class Alpha { M1 } class Beta : Alpha { M1 } }
CsAlphaBeta ==
    FileRecord("a.cs", "csharp", <<"N">>,
        << ClassDecl("Alpha", <<>>, <<Method("M1")>>),
           ClassDecl("Beta", << <<"Alpha">> >>, <<Method("M1")>>) >>,
        <<>>, <<>>, <<>>, <<>>)

\* b.cs: namespace N { interface IRepo {} class Repo : IRepo { M1 } }
\*       services.AddScoped<IRepo, Repo>
CsRepo ==
    FileRecord("b.cs", "CSharp", <<"N">>,
        << ClassDecl("Repo", << <<"IRepo">> >>, <<Method("M1")>>) >>,
        << [name |-> "IRepo", inheritance |-> <<>>] >>,
        << [service_type |-> <<"IRepo">>, implementation_type |-> <<"Repo">>,
            lifetime |-> "Scoped"] >>,
        <<>>, <<>>)

\* c.cs: a second file declaring N.Alpha (partial class), with method M2
CsAlphaAgain ==
    FileRecord("c.cs", "cs", <<"N">>,
        << ClassDecl("Alpha", <<>>, <<Method("M2")>>) >>,
        <<>>, <<>>, <<>>, <<>>)

\* f.cs: namespace N { partial class Repo { M2 } }: the other part of
\* the class Repo of b.cs, without an inheritance clause
CsRepoPartial ==
    FileRecord("f.cs", "csharp", <<"N">>,
        << ClassDecl("Repo", <<>>, <<Method("M2")>>) >>,
        <<>>, <<>>, <<>>, <<>>)

\* d.cs: no namespace declaration; class Beta : Alpha
CsNoNamespace ==
    FileRecord("d.cs", "c#", UnknownNamespace,
        << ClassDecl("Beta", << <<"Alpha">> >>, NoMethods) >>,
        <<>>, <<>>, <<>>, <<>>)

\* e.cs: namespace N.Alpha { class M1 {} }: its key equals the key of
\* the method M1 of N.Alpha
CsNested ==
    FileRecord("e.cs", "csharp", <<"N", "Alpha">>,
        << ClassDecl("M1", <<>>, NoMethods) >>,
        <<>>, <<>>, <<>>, <<>>)

\* p.py: import os; class Base; class Alpha(Base) with method run; def main
PyAlpha ==
    FileRecord("p.py", "python", UnknownNamespace,
        << ClassDecl("Base", <<>>, NoMethods),
           ClassDecl("Alpha", << <<"Base">> >>, <<Method("run")>>) >>,
        <<>>, <<>>,
        << [name |-> "main", is_async |-> TRUE] >>,
        << [module |-> <<"os">>, source |-> "", imported_items |-> <<>>] >>)

\* q.py: import Alpha; class Beta(Alpha), imports its own base
PyBeta ==
    FileRecord("q.py", "py", UnknownNamespace,
        << ClassDecl("Beta", << <<"Alpha">> >>, NoMethods) >>,
        <<>>, <<>>, <<>>,
        << [module |-> <<"Alpha">>, source |-> "", imported_items |-> <<>>],
           [module |-> <<>>, source |-> "", imported_items |-> <<>>] >>)

\* t.ts: import {Component} from '@angular/core'; import {Repo} from './repo'
\*       @Component class AppComponent { ngOnInit }
TsComponent ==
    [FileRecord("t.ts", "typescript", UnknownNamespace,
        << [ClassDecl("AppComponent", <<>>, <<Method("ngOnInit")>>)
                EXCEPT !.is_component = TRUE] >>,
        <<>>, <<>>, <<>>,
        << [module |-> <<>>, source |-> "@angular/core",
            imported_items |-> << <<"Component">> >>],
           [module |-> <<>>, source |-> "./repo",
            imported_items |-> << <<"Repo">> >>] >>)
     EXCEPT !.is_angular = TRUE]

\* u.js: class Alpha { M1 }, a service and module flagged class
JsAlpha ==
    FileRecord("u.js", "javascript", UnknownNamespace,
        << ClassDecl("Alpha", <<>>, <<Method("M1")>>),
           [ClassDecl("UserService", <<>>, NoMethods)
                EXCEPT !.is_service = TRUE, !.is_module = TRUE] >>,
        <<>>, <<>>, <<>>, <<>>)

\* g.java: handled by the generic extractor, no analyzer branch takes it
JavaFile ==
    FileRecord("g.java", "java", UnknownNamespace,
        << ClassDecl("Alpha", <<>>, NoMethods) >>,
        <<>>, <<>>, <<>>, <<>>)

\* controllers/user.py: class UserController with methods index and show
PyControllers ==
    FileRecord("controllers/user.py", "python", UnknownNamespace,
        << ClassDecl("UserController", <<>>, <<Method("index"), Method("show")>>) >>,
        <<>>, <<>>, <<>>, <<>>)

\* models/user.py: class User with methods save and load
PyModels ==
    FileRecord("models/user.py", "python", UnknownNamespace,
        << ClassDecl("User", <<>>, <<Method("save"), Method("load")>>) >>,
        <<>>, <<>>, <<>>, <<>>)

PyFunction(name) == [name |-> name, is_async |-> FALSE]

\* views/pages.py: def show_page, def show_list, def show_form
PyViews ==
    FileRecord("views/pages.py", "python", UnknownNamespace,
        <<>>, <<>>, <<>>,
        << PyFunction("show_page"), PyFunction("show_list"),
           PyFunction("show_form") >>,
        <<>>)

\* views/user.py: def render_user, def render_list, def render_model
PyViewsOfModel ==
    FileRecord("views/user.py", "python", UnknownNamespace,
        <<>>, <<>>, <<>>,
        << PyFunction("render_user"), PyFunction("render_list"),
           PyFunction("render_model") >>,
        <<>>)

FileRecords ==
    {CsAlphaBeta, CsRepo, CsRepoPartial, CsAlphaAgain, CsNoNamespace, CsNested,
     PyAlpha, PyBeta, TsComponent, JsAlpha, JavaFile}

\* the records of a repository laid out in controllers/, models/, views/
FolderRecords == {PyControllers, PyModels, PyViews, PyViewsOfModel}

FilePaths == {f.file_path : f \in FileRecords}

\* str.lower() on the language tags that occur
Lower(tag) ==
    CASE tag = "CSharp" -> "csharp"
      [] tag = "CS" -> "cs"
      [] tag = "C#" -> "c#"
      [] tag = "TS" -> "ts"
      [] tag = "TypeScript" -> "typescript"
      [] tag = "JavaScript" -> "javascript"
      [] tag = "JS" -> "js"
      [] tag = "Python" -> "python"
      [] tag = "PY" -> "py"
      [] tag = "Java" -> "java"
      [] OTHER -> tag

CsharpTags == {"csharp", "cs", "c#"}
TypescriptTags == {"typescript", "ts"}
JavascriptTags == {"javascript", "js"}
PythonTags == {"python", "py"}

(***************************************************************************)
(* CallGraphAnalyzer: per-file passes                                      *)
(***************************************************************************)
\* the method loop of one C# class: a method node class_node.method and a
\* contains edge from the class
RECURSIVE CsMethods(_, _, _, _, _)
CsMethods(G, f, cls, class_node, methods) ==
    IF methods = <<>> THEN G
    ELSE LET method_node == class_node \o <<methods[1].name>>
             G1 == AddNode(G, method_node,
                       [type |-> "method", language |-> "csharp",
                        file_path |-> f.file_path, class_name |-> cls.name,
                        namespace |-> f.namespace])
             G2 == AddEdge(G1, class_node, method_node, [type |-> "contains"])
         IN  CsMethods(G2, f, cls, class_node, Tail(methods))

\* the class loop of _analyze_csharp_file; the inheritance list of the
\* class entry is not read
RECURSIVE CsClasses(_, _, _)
CsClasses(G, f, classes) ==
    IF classes = <<>> THEN G
    ELSE LET cls == classes[1]
             class_node == f.namespace \o <<cls.name>>
             G1 == AddNode(G, class_node,
                       [type |-> "class", language |-> "csharp",
                        file_path |-> f.file_path, namespace |-> f.namespace])
             G2 == CsMethods(G1, f, cls, class_node, cls.methods)
         IN  CsClasses(G2, f, Tail(classes))

RECURSIVE CsInterfaces(_, _, _)
CsInterfaces(G, f, interfaces) ==
    IF interfaces = <<>> THEN G
    ELSE LET interface_node == f.namespace \o <<interfaces[1].name>>
             G1 == AddNode(G, interface_node,
                       [type |-> "interface", language |-> "csharp",
                        file_path |-> f.file_path, namespace |-> f.namespace])
         IN  CsInterfaces(G1, f, Tail(interfaces))

RECURSIVE CsDiRegistrations(_, _, _)
CsDiRegistrations(G, f, dis) ==
    IF dis = <<>> THEN G
    ELSE LET di == dis[1]
             s == di.service_type
             t == di.implementation_type
             G1 == IF HasNode(G, s) THEN G
                   ELSE AddNode(G, s, [type |-> "interface", language |-> "csharp",
                                       file_path |-> f.file_path])
             G2 == IF HasNode(G1, t) THEN G1
                   ELSE AddNode(G1, t, [type |-> "class", language |-> "csharp",
                                        file_path |-> f.file_path])
             G3 == AddEdge(G2, s, t,
                       [type |-> "di_registration", lifetime |-> di.lifetime])
         IN  CsDiRegistrations(
                 IF s # <<>> /\ t # <<>> THEN G3 ELSE G, f, Tail(dis))

AnalyzeCsharpFile(G, f) ==
    CsDiRegistrations(
        CsInterfaces(CsClasses(G, f, f.classes), f, f.interfaces),
        f, f.di_registrations)

BoolStr(b) == IF b THEN "True" ELSE "False"

\* ---- TypeScript / JavaScript
TsNodeType(cls) ==
    IF cls.is_component THEN "component"
    ELSE IF cls.is_service THEN "service"
    ELSE IF cls.is_module THEN "module"
    ELSE "class"

RECURSIVE TsMethods(_, _, _, _)
TsMethods(G, f, cls, methods) ==
    IF methods = <<>> THEN G
    ELSE LET method_node == <<cls.name>> \o <<methods[1].name>>
             G1 == AddNode(G, method_node,
                       [type |-> "method", language |-> "typescript",
                        file_path |-> f.file_path, class_name |-> cls.name])
             G2 == AddEdge(G1, <<cls.name>>, method_node, [type |-> "contains"])
         IN  TsMethods(G2, f, cls, Tail(methods))

RECURSIVE TsClasses(_, _, _)
TsClasses(G, f, classes) ==
    IF classes = <<>> THEN G
    ELSE LET cls == classes[1]
             G1 == AddNode(G, <<cls.name>>,
                       [type |-> TsNodeType(cls), language |-> "typescript",
                        file_path |-> f.file_path,
                        is_angular |-> BoolStr(f.is_angular)])
         IN  TsClasses(TsMethods(G1, f, cls, cls.methods), f, Tail(classes))

\* source.startswith("@angular/")
IsAngularSource(source) == source \in {"@angular/core", "@angular/common", "@angular/router"}

RECURSIVE TsImportEdges(_, _, _, _)
TsImportEdges(G, classes, item, source) ==
    IF classes = <<>> THEN G
    ELSE TsImportEdges(
            AddEdge(G, <<classes[1].name>>, item,
                    [type |-> "imports", source |-> source]),
            Tail(classes), item, source)

RECURSIVE TsImportItems(_, _, _, _)
TsImportItems(G, f, items, source) ==
    IF items = <<>> THEN G
    ELSE IF IsAngularSource(source) THEN TsImportItems(G, f, Tail(items), source)
    ELSE LET item == items[1]
             G1 == IF HasNode(G, item) THEN G
                   ELSE AddNode(G, item, [type |-> "import", language |-> "typescript",
                                          file_path |-> "unknown"])
         IN  TsImportItems(TsImportEdges(G1, f.classes, item, source),
                           f, Tail(items), source)

RECURSIVE TsImports(_, _, _)
TsImports(G, f, imports) ==
    IF imports = <<>> THEN G
    ELSE TsImports(TsImportItems(G, f, imports[1].imported_items, imports[1].source),
                   f, Tail(imports))

AnalyzeTypescriptFile(G, f) == TsImports(TsClasses(G, f, f.classes), f, f.imports)

\* _analyze_javascript_file delegates to the TypeScript pass
AnalyzeJavascriptFile(G, f) == AnalyzeTypescriptFile(G, f)

\* ---- Python
RECURSIVE PyBases(_, _, _)
PyBases(G, cls, bases) ==
    IF bases = <<>> THEN G
    ELSE LET base == bases[1]
             G1 == IF HasNode(G, base) THEN G
                   ELSE AddNode(G, base, [type |-> "class", language |-> "python",
                                          file_path |-> "unknown"])
         IN  PyBases(AddEdge(G1, <<cls.name>>, base, [type |-> "inherits"]),
                     cls, Tail(bases))

RECURSIVE PyMethods(_, _, _, _)
PyMethods(G, f, cls, methods) ==
    IF methods = <<>> THEN G
    ELSE LET method_node == <<cls.name>> \o <<methods[1].name>>
             G1 == AddNode(G, method_node,
                       [type |-> "method", language |-> "python",
                        file_path |-> f.file_path, class_name |-> cls.name,
                        is_async |-> BoolStr(methods[1].is_async)])
             G2 == AddEdge(G1, <<cls.name>>, method_node, [type |-> "contains"])
         IN  PyMethods(G2, f, cls, Tail(methods))

RECURSIVE PyClasses(_, _, _)
PyClasses(G, f, classes) ==
    IF classes = <<>> THEN G
    ELSE LET cls == classes[1]
             G1 == AddNode(G, <<cls.name>>,
                       [type |-> "class", language |-> "python",
                        file_path |-> f.file_path])
             G2 == PyBases(G1, cls, cls.bases)
         IN  PyClasses(PyMethods(G2, f, cls, cls.methods), f, Tail(classes))

RECURSIVE PyFunctions(_, _, _)
PyFunctions(G, f, functions) ==
    IF functions = <<>> THEN G
    ELSE PyFunctions(
            AddNode(G, <<functions[1].name>>,
                [type |-> "function", language |-> "python",
                 file_path |-> f.file_path,
                 is_async |-> BoolStr(functions[1].is_async)]),
            f, Tail(functions))

\* imports edges from every class and every top-level function of the
\* file to one imported module
RECURSIVE PyImportEdges(_, _, _)
PyImportEdges(G, decls, module) ==
    IF decls = <<>> THEN G
    ELSE PyImportEdges(AddEdge(G, <<decls[1].name>>, module, [type |-> "imports"]),
                       Tail(decls), module)

RECURSIVE PyImports(_, _, _)
PyImports(G, f, imports) ==
    IF imports = <<>> THEN G
    ELSE LET module == imports[1].module
             G1 == IF HasNode(G, module) THEN G
                   ELSE AddNode(G, module, [type |-> "module", language |-> "python",
                                            file_path |-> "unknown"])
             G2 == PyImportEdges(PyImportEdges(G1, f.classes, module),
                                 f.functions, module)
         IN  PyImports(IF module = <<>> THEN G ELSE G2, f, Tail(imports))

AnalyzePythonFile(G, f) ==
    PyImports(PyFunctions(PyClasses(G, f, f.classes), f, f.functions), f, f.imports)

(***************************************************************************)
(* CallGraphAnalyzer: cross-file pass                                      *)
(***************************************************************************)
\* the file a path names on disk: the catalogue record extracted from it
HasFile(path) == \E f \in FileRecords \cup FolderRecords : f.file_path = path

FileAt(path) == CHOOSE f \in FileRecords \cup FolderRecords : f.file_path = path

\* pairs <<text, part>> of names of the catalogue where part is a proper
\* substring of text
ProperSubstrings == {<<"IRepo", "Repo">>}

ContainsText(text, part) == text = part \/ <<text, part>> \in ProperSubstrings

\* re.search("class\s+{class_name}\s*:\s*.*{interface_name}", content) on
\* the text the record f was extracted from: a declaration of class_name
\* whose inheritance clause contains interface_name
ClauseMatches(f, class_name, interface_name) ==
    \E i \in 1..Len(f.classes) :
        /\ f.classes[i].name = class_name
        /\ \E j \in 1..Len(f.classes[i].inheritance) :
              \E k \in 1..Len(f.classes[i].inheritance[j]) :
                  ContainsText(f.classes[i].inheritance[j][k], interface_name)

\* class_map / interface_map: bare name -> node ids, both in node order
NodesOfType(G, type) ==
    SelectSeq(G.nodes, LAMBDA e : Get(e.attrs, "type", "none") = type)

RECURSIVE BareNames(_, _)
BareNames(entries, seen) ==
    IF entries = <<>> THEN <<>>
    ELSE LET name == Last(entries[1].id)
         IN  IF name \in seen THEN BareNames(Tail(entries), seen)
             ELSE <<name>> \o BareNames(Tail(entries), seen \cup {name})

NodesNamed(entries, name) == SelectSeq(entries, LAMBDA e : Last(e.id) = name)

\* mutant of CrossPair: the namespaces are not compared
CrossPair_AnyNamespace(G, unreadable, class_name, interface_name, c, i) ==
    LET file_path == Get(c.attrs, "file_path", "")
        readable == HasFile(file_path) /\ file_path \notin unreadable
    IN  IF /\ file_path # ""
           /\ readable
           /\ ClauseMatches(FileAt(file_path), class_name, interface_name)
        THEN AddEdge(G, c.id, i.id, [type |-> "implements"])
        ELSE G

\* the body of the innermost loop for one (class_node, interface_node)
CrossPair(G, unreadable, class_name, interface_name, c, i) ==
    LET cns == Get(c.attrs, "namespace", <<>>)
        ins == Get(i.attrs, "namespace", <<>>)
        file_path == Get(c.attrs, "file_path", "")
        readable == HasFile(file_path) /\ file_path \notin unreadable
    IN  IF /\ cns # <<>> /\ ins # <<>> /\ cns = ins
           /\ file_path # ""
           /\ readable
           /\ ClauseMatches(FileAt(file_path), class_name, interface_name)
        THEN AddEdge(G, c.id, i.id, [type |-> "implements"])
        ELSE G

RECURSIVE CrossInterfaceNodes(_, _, _, _, _, _)
CrossInterfaceNodes(G, unreadable, class_name, interface_name, c, inodes) ==
    IF inodes = <<>> THEN G
    ELSE CrossInterfaceNodes(
            CrossPair(G, unreadable, class_name, interface_name, c, inodes[1]),
            unreadable, class_name, interface_name, c, Tail(inodes))

RECURSIVE CrossClassNodes(_, _, _, _, _, _)
CrossClassNodes(G, unreadable, class_name, interface_name, cnodes, inodes) ==
    IF cnodes = <<>> THEN G
    ELSE CrossClassNodes(
            CrossInterfaceNodes(G, unreadable, class_name, interface_name,
                                cnodes[1], inodes),
            unreadable, class_name, interface_name, Tail(cnodes), inodes)

RECURSIVE CrossInterfaces(_, _, _, _, _, _)
CrossInterfaces(G, unreadable, class_name, inames, cnodes, ientries) ==
    IF inames = <<>> THEN G
    ELSE CrossInterfaces(
            CrossClassNodes(G, unreadable, class_name, inames[1], cnodes,
                            NodesNamed(ientries, inames[1])),
            unreadable, class_name, Tail(inames), cnodes, ientries)

RECURSIVE CrossClasses(_, _, _, _, _)
CrossClasses(G, unreadable, cnames, centries, ientries) ==
    IF cnames = <<>> THEN G
    ELSE CrossClasses(
            CrossInterfaces(G, unreadable, cnames[1], BareNames(ientries, {}),
                            NodesNamed(centries, cnames[1]), ientries),
            unreadable, Tail(cnames), centries, ientries)

BuildCrossFileRelationships(G, unreadable) ==
    LET centries == NodesOfType(G, "class")
        ientries == NodesOfType(G, "interface")
    IN  CrossClasses(G, unreadable, BareNames(centries, {}), centries, ientries)

(***************************************************************************)
(* CallGraphAnalyzer: results                                              *)
(***************************************************************************)
\* DiGraph.degree: in-degree plus out-degree
Degree(G, n) ==
    Cardinality({i \in 1..Len(G.edges) : G.edges[i].src = n})
  + Cardinality({i \in 1..Len(G.edges) : G.edges[i].dst = n})

\* nx.degree_centrality: degree / (n - 1), and 1 for every node of a
\* graph with at most one node; kept as the fraction <<num, den>>
Centrality(G, n) ==
    IF Len(G.nodes) <= 1 THEN <<1, 1>> ELSE <<Degree(G, n), Len(G.nodes) - 1>>

\* sorted(..., key=score, reverse=True): stable, equal scores keep their
\* input order; scores of one graph share their denominator
RECURSIVE InsertDesc(_, _)
InsertDesc(sorted, e) ==
    IF sorted = <<>> THEN <<e>>
    ELSE IF sorted[1].centrality[1] >= e.centrality[1]
         THEN <<sorted[1]>> \o InsertDesc(Tail(sorted), e)
         ELSE <<e>> \o sorted

RECURSIVE SortDesc(_, _)
SortDesc(sorted, rest) ==
    IF rest = <<>> THEN sorted
    ELSE SortDesc(InsertDesc(sorted, rest[1]), Tail(rest))

Take(s, n) == SubSeq(s, 1, IF Len(s) < n THEN Len(s) ELSE n)

\* mutant of CentralComponents: the first nodes of the graph, unranked
CentralComponents_Unranked(G) ==
    Take([i \in 1..Len(G.nodes) |->
             [id |-> G.nodes[i].id,
              centrality |-> Centrality(G, G.nodes[i].id)]],
         TopN)

CentralComponents(G) ==
    Take(SortDesc(<<>>, [i \in 1..Len(G.nodes) |->
                            [id |-> G.nodes[i].id,
                             centrality |-> Centrality(G, G.nodes[i].id)]]),
         TopN)

\* pairs <<text, marker>>: the lower-cased text contains the marker
MarkerTable ==
    {<<"UserService", "service">>,
     <<"UserController", "controller">>,
     <<"render_model", "model">>,
     <<"controllers/user.py", "controllers">>,
     <<"models/user.py", "models">>,
     <<"views/pages.py", "views">>,
     <<"views/user.py", "views">>}

HasMarker(text, marker) == <<text, marker>> \in MarkerTable

\* marker in node_id.lower(): markers hold no dot, so the marker lies in
\* one segment
IdHasMarker(id, marker) == \E k \in 1..Len(id) : HasMarker(id[k], marker)

MvcFamily(e) ==
    LET cn == Get(e.attrs, "class_name", "")
        fp == Get(e.attrs, "file_path", "")
    IN  IF IdHasMarker(e.id, "controller") \/ HasMarker(cn, "controller")
           \/ HasMarker(fp, "controllers") THEN "controllers"
        ELSE IF IdHasMarker(e.id, "model") \/ HasMarker(cn, "model")
           \/ HasMarker(fp, "models") THEN "models"
        ELSE IF IdHasMarker(e.id, "view") \/ HasMarker(cn, "view")
           \/ HasMarker(fp, "views") THEN "views"
        ELSE "none"

MvcCount(G, family) ==
    Cardinality({i \in 1..Len(G.nodes) : MvcFamily(G.nodes[i]) = family})

MarkerCount(G, marker) ==
    Cardinality({i \in 1..Len(G.nodes) : IdHasMarker(G.nodes[i].id, marker)})

DiEdgeCount(G) ==
    Cardinality({i \in 1..Len(G.edges) :
                    Get(G.edges[i].attrs, "type", "unknown") = "di_registration"})

MinOf(S) == CHOOSE x \in S : \A y \in S : x <= y

IdentifyArchitecturalPatterns(G) ==
    LET mvc == {MvcCount(G, "controllers"), MvcCount(G, "models"), MvcCount(G, "views")}
        repos == MarkerCount(G, "repository")
        services == MarkerCount(G, "service")
        factories == MarkerCount(G, "factory")
    IN  (IF \A c \in mvc : c > 0
         THEN << [name |-> "MVC (Model-View-Controller)",
                  confidence |-> IF MinOf(mvc) > 2 THEN "high" ELSE "medium"] >>
         ELSE <<>>)
     \o (IF repos > 0
         THEN << [name |-> "Repository Pattern",
                  confidence |-> IF repos > 2 THEN "high" ELSE "medium"] >>
         ELSE <<>>)
     \o (IF services > 0
         THEN << [name |-> "Service Pattern",
                  confidence |-> IF services > 2 THEN "high" ELSE "medium"] >>
         ELSE <<>>)
     \o (IF factories > 0
         THEN << [name |-> "Factory Pattern", confidence |-> "medium"] >>
         ELSE <<>>)
     \o (IF DiEdgeCount(G) > 0
         THEN << [name |-> "Dependency Injection", confidence |-> "high"] >>
         ELSE <<>>)

NoResult == [status |-> "none"]

\* call_graph.edges(data=True): the adjacency of each node, in node order
RECURSIVE EdgesFrom(_, _)
EdgesFrom(G, nodes) ==
    IF nodes = <<>> THEN <<>>
    ELSE SelectSeq(G.edges, LAMBDA e : e.src = nodes[1].id)
            \o EdgesFrom(G, Tail(nodes))

EdgeView(G) == EdgesFrom(G, G.nodes)

\* mutant of ExportGraphToJson: a link runs from the edge's target to its
\* source
ExportGraphToJson_LinksReversed(G) ==
    [nodes |-> [i \in 1..Len(G.nodes) |->
                  [id |-> G.nodes[i].id,
                   type |-> Get(G.nodes[i].attrs, "type", "unknown"),
                   code_language |-> Get(G.nodes[i].attrs, "code_language", "unknown"),
                   file_path |-> Get(G.nodes[i].attrs, "file_path", "unknown")]],
     links |-> [i \in 1..Len(EdgeView(G)) |->
                  [source |-> EdgeView(G)[i].dst, target |-> EdgeView(G)[i].src,
                   type |-> Get(EdgeView(G)[i].attrs, "type", "unknown")]]]

\* the data export_graph_to_json dumps
ExportGraphToJson(G) ==
    [nodes |-> [i \in 1..Len(G.nodes) |->
                  [id |-> G.nodes[i].id,
                   type |-> Get(G.nodes[i].attrs, "type", "unknown"),
                   code_language |-> Get(G.nodes[i].attrs, "code_language", "unknown"),
                   file_path |-> Get(G.nodes[i].attrs, "file_path", "unknown")]],
     links |-> [i \in 1..Len(EdgeView(G)) |->
                  [source |-> EdgeView(G)[i].src, target |-> EdgeView(G)[i].dst,
                   type |-> Get(EdgeView(G)[i].attrs, "type", "unknown")]]]

\* the node attribute is stored as language and read back as code_language
GenerateAnalysisResults(G) ==
    [status |-> "ok",
     node_count |-> Len(G.nodes),
     edge_count |-> Len(G.edges),
     central_components |-> CentralComponents(G),
     patterns |-> IdentifyArchitecturalPatterns(G),
     nodes |-> [i \in 1..Len(G.nodes) |->
                  [id |-> G.nodes[i].id,
                   type |-> Get(G.nodes[i].attrs, "type", "unknown"),
                   code_language |-> Get(G.nodes[i].attrs, "code_language", "unknown"),
                   file_path |-> Get(G.nodes[i].attrs, "file_path", "unknown"),
                   degree |-> Degree(G, G.nodes[i].id)]],
     edges |-> [i \in 1..Len(EdgeView(G)) |->
                  [source |-> EdgeView(G)[i].src, target |-> EdgeView(G)[i].dst,
                   type |-> Get(EdgeView(G)[i].attrs, "type", "unknown")]]]

(***************************************************************************)
(* CallGraphAnalyzer.analyze_codebase as a state machine                   *)
(***************************************************************************)
UnreadableChoices == {{}} \cup {{p} : p \in FilePaths}

\* mutant of ClearGraph: the graph of the previous build is kept
ClearGraph_Kept(G) == G

\* call_graph.clear()
ClearGraph(G) == EmptyGraph

GraphIdle ==
    /\ cg_pc = "idle"
    /\ cg_files = <<>>
    /\ call_graph = EmptyGraph
    /\ cg_unreadable = {}
    /\ cg_result = NoResult

\* analyze_codebase is entered: both graphs are cleared (no language
\* filter, no exclude pattern); cg_files collects the records of the
\* files argument as the loop takes them
StartAnalysis ==
    /\ cg_pc \in {"idle", "done"}
    /\ cg_files' = <<>>
    /\ cg_unreadable' = {}
    /\ call_graph' = ClearGraph(call_graph)
    /\ cg_result' = NoResult
    /\ cg_pc' = "files"
    /\ GraphFrame

\* one iteration of "for file_info in files" on the record f
FileStep(f, G) ==
    /\ cg_pc = "files"
    /\ Len(cg_files) < (IF f \in FolderRecords THEN MaxFolderFiles ELSE MaxFiles)
    /\ call_graph' = G
    /\ cg_files' = Append(cg_files, f)
    /\ UNCHANGED <<cg_pc, cg_unreadable, cg_result>>
    /\ GraphFrame

AnalyzeCsharp ==
    \E f \in FileRecords :
        /\ Lower(f.code_language) \in CsharpTags
        /\ FileStep(f, AnalyzeCsharpFile(call_graph, f))

AnalyzeTypescript ==
    \E f \in FileRecords :
        /\ Lower(f.code_language) \in TypescriptTags
        /\ FileStep(f, AnalyzeTypescriptFile(call_graph, f))

AnalyzeJavascript ==
    \E f \in FileRecords :
        /\ Lower(f.code_language) \in JavascriptTags
        /\ FileStep(f, AnalyzeJavascriptFile(call_graph, f))

AnalyzePython ==
    \E f \in FileRecords :
        /\ Lower(f.code_language) \in PythonTags
        /\ FileStep(f, AnalyzePythonFile(call_graph, f))

\* the same branch on a record of the folder layout
AnalyzeFolderFile ==
    \E f \in FolderRecords :
        /\ Lower(f.code_language) \in PythonTags
        /\ FileStep(f, AnalyzePythonFile(call_graph, f))

\* a record of any other language falls through the if/elif chain
SkipOtherLanguage ==
    \E f \in FileRecords :
        /\ Lower(f.code_language) \notin
              CsharpTags \cup TypescriptTags \cup JavascriptTags \cup PythonTags
        /\ FileStep(f, call_graph)

\* the file loop has ended; u are the paths open() fails on in this pass
BuildCrossFile ==
    /\ cg_pc = "files"
    /\ \E u \in UnreadableChoices :
          /\ cg_unreadable' = u
          /\ call_graph' = BuildCrossFileRelationships(call_graph, u)
    /\ cg_pc' = "results"
    /\ UNCHANGED <<cg_files, cg_result>>
    /\ GraphFrame

GenerateResults ==
    /\ cg_pc = "results"
    /\ cg_result' = GenerateAnalysisResults(call_graph)
    /\ cg_pc' = "done"
    /\ UNCHANGED <<cg_files, call_graph, cg_unreadable>>
    /\ GraphFrame

\* export_graph_to_json on the graph of the finished build
ExportGraph ==
    /\ cg_pc = "done"
    /\ cg_export' = ExportGraphToJson(call_graph)
    /\ UNCHANGED <<graphVars, patternVars, chunkVars, extractVars, runVars>>
    /\ UNCHANGED <<hd_pc, hd_file_infos, hd_results, fileChunkVars>>

\* the one build of a caller that exports afterwards
StartBuild ==
    /\ cg_export = NoResult
    /\ StartAnalysis

GraphNext ==
    \/ StartAnalysis
    \/ AnalyzeCsharp
    \/ AnalyzeTypescript
    \/ AnalyzeJavascript
    \/ AnalyzePython
    \/ SkipOtherLanguage
    \/ BuildCrossFile
    \/ GenerateResults

\* a build followed by its export
ExportNext ==
    \/ StartBuild
    \/ AnalyzeCsharp
    \/ AnalyzeTypescript
    \/ AnalyzeJavascript
    \/ AnalyzePython
    \/ SkipOtherLanguage
    \/ BuildCrossFile
    \/ GenerateResults
    \/ ExportGraph

\* builds over the folder layout
FolderNext ==
    \/ StartAnalysis
    \/ AnalyzeFolderFile
    \/ BuildCrossFile
    \/ GenerateResults

(***************************************************************************)
(* PatternExtractor: observations and _deduplicate_patterns                *)
(***************************************************************************)
PatternNames == {"Factory Pattern", "Dependency Injection"}
\* every _add_* call of the extractor passes "medium" or "high"; "low" is
\* named by the docstrings only
Confidences == {"medium", "high"}
Sources == {"a.cs", "b.cs"}
Languages == {"csharp", "python"}
Categories == {"design_patterns", "architectural_patterns", "code_organization"}

Observation(name, confidence, source) ==
    [name |-> name, confidence |-> confidence, source |-> source]

EmptyPatterns ==
    [design_patterns |-> <<>>, architectural_patterns |-> <<>>,
     code_organization |-> <<>>,
     language_specific |-> [l \in Languages |-> <<>>]]

\* mutant of PromotedConfidence: promotion only on a high observation
PromotedConfidence_NoCountRule(old, confidence, count) ==
    IF confidence = "high" THEN "high" ELSE old

\* the confidence of a finding after one more observation was merged in
PromotedConfidence(old, confidence, count) ==
    IF confidence = "high" \/ count > 2 THEN "high" ELSE old

\* one pass of "for pattern in ...": the dict keyed by name, in insertion
\* order
RECURSIVE MergeObservations(_, _)
MergeObservations(merged, observations) ==
    IF observations = <<>> THEN merged
    ELSE LET p == observations[1]
             next ==
                IF \E i \in 1..Len(merged) : merged[i].name = p.name
                THEN [i \in 1..Len(merged) |->
                        IF merged[i].name = p.name
                        THEN [name |-> p.name,
                              confidence |-> PromotedConfidence(
                                  merged[i].confidence, p.confidence,
                                  merged[i].count + 1),
                              sources |-> Append(merged[i].sources, p.source),
                              count |-> merged[i].count + 1]
                        ELSE merged[i]]
                ELSE Append(merged, [name |-> p.name, confidence |-> p.confidence,
                                     sources |-> <<p.source>>, count |-> 1])
         IN  MergeObservations(next, Tail(observations))

ConfidenceRank(c) == IF c = "high" THEN 0 ELSE IF c = "medium" THEN 1 ELSE 2

\* mutant of SortsBeforeOrEqual: the key is the rank alone
SortsBeforeOrEqual_IgnoresCount(a, b) ==
    ConfidenceRank(a.confidence) <= ConfidenceRank(b.confidence)

\* key (rank, -count) of list.sort
SortsBeforeOrEqual(a, b) ==
    \/ ConfidenceRank(a.confidence) < ConfidenceRank(b.confidence)
    \/ /\ ConfidenceRank(a.confidence) = ConfidenceRank(b.confidence)
       /\ a.count >= b.count

\* list.sort is stable: an entry goes after the entries that do not sort
\* after it
RECURSIVE InsertFinding(_, _)
InsertFinding(sorted, e) ==
    IF sorted = <<>> THEN <<e>>
    ELSE IF SortsBeforeOrEqual(sorted[1], e)
         THEN <<sorted[1]>> \o InsertFinding(Tail(sorted), e)
         ELSE <<e>> \o sorted

RECURSIVE SortFindings(_, _)
SortFindings(sorted, rest) ==
    IF rest = <<>> THEN sorted
    ELSE SortFindings(InsertFinding(sorted, rest[1]), Tail(rest))

DeduplicateList(observations) ==
    SortFindings(<<>>, MergeObservations(<<>>, observations))

DeduplicatePatterns(found) ==
    [design_patterns |-> DeduplicateList(found.design_patterns),
     architectural_patterns |-> DeduplicateList(found.architectural_patterns),
     code_organization |-> DeduplicateList(found.code_organization),
     language_specific |->
        [l \in Languages |-> DeduplicateList(found.language_specific[l])]]

ObservationCount(found) ==
    Len(found.design_patterns) + Len(found.architectural_patterns)
  + Len(found.code_organization)
  + SumSeq([i \in 1..2 |->
        Len(found.language_specific[IF i = 1 THEN "csharp" ELSE "python"])])

\* "part in pattern_name" on the names the call graph analysis reports
NameHas(name, part) ==
    <<name, part>> \in
        {<<"MVC (Model-View-Controller)", "MVC">>,
         <<"Repository Pattern", "Repository">>,
         <<"Service Pattern", "Service">>,
         <<"Factory Pattern", "Factory">>,
         <<"Dependency Injection", "Dependency Injection">>}

CallGraphSource == "call_graph_analysis"

\* the if/elif chain on one reported pattern
AddCallGraphPattern(found, pattern) ==
    LET confidence == Get(pattern, "confidence", "medium")
    IN  IF NameHas(pattern.name, "MVC")
        THEN [found EXCEPT !.architectural_patterns =
                Append(@, Observation("MVC", confidence, CallGraphSource))]
        ELSE IF NameHas(pattern.name, "Repository")
        THEN [found EXCEPT !.design_patterns =
                Append(@, Observation("Repository Pattern", confidence, CallGraphSource))]
        ELSE IF NameHas(pattern.name, "Service")
        THEN [found EXCEPT !.design_patterns =
                Append(@, Observation("Service Pattern", confidence, CallGraphSource))]
        ELSE IF NameHas(pattern.name, "Factory")
        THEN [found EXCEPT !.design_patterns =
                Append(@, Observation("Factory Pattern", confidence, CallGraphSource))]
        ELSE IF NameHas(pattern.name, "Dependency Injection")
        THEN [found EXCEPT !.design_patterns =
                Append(@, Observation("Dependency Injection", confidence, CallGraphSource))]
        ELSE found

RECURSIVE AddCallGraphPatterns(_, _)
AddCallGraphPatterns(found, patterns) ==
    IF patterns = <<>> THEN found
    ELSE AddCallGraphPatterns(AddCallGraphPattern(found, patterns[1]),
                              Tail(patterns))

\* sum(1 for node in nodes if marker in node.get("id", "").lower())
ResultMarkerCount(nodes, markers) ==
    Cardinality({i \in 1..Len(nodes) :
                    \E m \in markers : IdHasMarker(nodes[i].id, m)})

LayeredArchitecture(found, nodes) ==
    IF /\ ResultMarkerCount(nodes, {"controller"}) > 0
       /\ ResultMarkerCount(nodes, {"service"}) > 0
       /\ \/ ResultMarkerCount(nodes, {"repository", "dao"}) > 0
          \/ ResultMarkerCount(nodes, {"model", "entity"}) > 0
    THEN [found EXCEPT !.architectural_patterns =
            Append(@, Observation("Layered Architecture", "high", CallGraphSource))]
    ELSE found

HexagonalArchitecture(found, nodes) ==
    LET interfaces ==
            Cardinality({i \in 1..Len(nodes) : nodes[i].type = "interface"})
        implementations ==
            Cardinality({i \in 1..Len(nodes) :
                            /\ nodes[i].type = "class"
                            /\ IdHasMarker(nodes[i].id, "impl")})
    IN  IF interfaces > 5 /\ implementations > 5
        THEN [found EXCEPT !.architectural_patterns =
                Append(@, Observation("Hexagonal/Clean Architecture", "medium",
                                      CallGraphSource))]
        ELSE found

AnalyzeCallGraphPatterns(found, results) ==
    LET nodes == Get(results, "nodes", <<>>)
    IN  HexagonalArchitecture(
            LayeredArchitecture(
                AddCallGraphPatterns(found, Get(results, "patterns", <<>>)),
                nodes),
            nodes)

\* results["call_graph"] of the enhanced handler, which it hands to
\* extract_patterns as call_graph_results
HandlerCallGraph(result) ==
    [file |-> "call_graph.json",
     node_count |-> result.node_count,
     edge_count |-> result.edge_count,
     central_components |->
        [i \in 1..Len(result.central_components) |->
            result.central_components[i].id]]

PatternIdle ==
    /\ pat_pc = "idle"
    /\ patterns_found = EmptyPatterns
    /\ pat_observed = EmptyPatterns
    /\ call_graph_results = NoResult

\* extract_patterns is entered: self.patterns_found is reset
ResetPatterns ==
    /\ pat_pc \in {"idle", "done"}
    /\ patterns_found' = EmptyPatterns
    /\ pat_observed' = EmptyPatterns
    /\ call_graph_results' = NoResult
    /\ pat_pc' = "collect"
    /\ PatternFrame

CanObserve == pat_pc = "collect" /\ ObservationCount(patterns_found) < MaxObs

AddDesignPattern ==
    /\ CanObserve
    /\ \E n \in PatternNames, c \in Confidences, src \in Sources :
          patterns_found' = [patterns_found EXCEPT !.design_patterns =
                                Append(@, Observation(n, c, src))]
    /\ UNCHANGED <<pat_pc, pat_observed, call_graph_results>>
    /\ PatternFrame

AddArchitecturalPattern ==
    /\ CanObserve
    /\ \E n \in PatternNames, c \in Confidences, src \in Sources :
          patterns_found' = [patterns_found EXCEPT !.architectural_patterns =
                                Append(@, Observation(n, c, src))]
    /\ UNCHANGED <<pat_pc, pat_observed, call_graph_results>>
    /\ PatternFrame

AddCodeOrganization ==
    /\ CanObserve
    /\ \E n \in PatternNames, c \in Confidences, src \in Sources :
          patterns_found' = [patterns_found EXCEPT !.code_organization =
                                Append(@, Observation(n, c, src))]
    /\ UNCHANGED <<pat_pc, pat_observed, call_graph_results>>
    /\ PatternFrame

AddLanguageSpecificPattern ==
    /\ CanObserve
    /\ \E l \in Languages, n \in PatternNames, c \in Confidences, src \in Sources :
          patterns_found' = [patterns_found EXCEPT !.language_specific[l] =
                                Append(@, Observation(n, c, src))]
    /\ UNCHANGED <<pat_pc, pat_observed, call_graph_results>>
    /\ PatternFrame

\* the file passes are over and the caller handed call graph results:
\* _analyze_call_graph_patterns runs on them
AnalyzeCallGraph ==
    /\ pat_pc = "collect"
    /\ cg_pc = "done"
    /\ \E handed \in {cg_result, HandlerCallGraph(cg_result)} :
          /\ call_graph_results' = handed
          /\ patterns_found' = AnalyzeCallGraphPatterns(patterns_found, handed)
    /\ pat_pc' = "folders"
    /\ UNCHANGED pat_observed
    /\ PatternFrame

\* the signal passes are over: _deduplicate_patterns, then return
Deduplicate ==
    /\ pat_pc \in {"collect", "folders"}
    /\ pat_observed' = patterns_found
    /\ UNCHANGED call_graph_results
    /\ patterns_found' = DeduplicatePatterns(patterns_found)
    /\ pat_pc' = "done"
    /\ PatternFrame

PatternNext ==
    \/ ResetPatterns
    \/ AddDesignPattern
    \/ AddArchitecturalPattern
    \/ AddCodeOrganization
    \/ AddLanguageSpecificPattern
    \/ Deduplicate

\* the caller starts its one call graph build before any extraction
StartCallGraphs ==
    /\ pat_pc = "idle"
    /\ StartAnalysis

\* the caller enters extract_patterns once analyze_codebase has returned
StartPatterns ==
    /\ cg_pc = "done"
    /\ ResetPatterns

\* a call graph build, then extract_patterns with an empty file list and
\* the build's results
ReportNext ==
    \/ StartCallGraphs
    \/ AnalyzeCsharp
    \/ AnalyzeTypescript
    \/ AnalyzeJavascript
    \/ AnalyzePython
    \/ SkipOtherLanguage
    \/ BuildCrossFile
    \/ GenerateResults
    \/ StartPatterns
    \/ AnalyzeCallGraph
    \/ Deduplicate

(***************************************************************************)
(* EnhancedRepositoryAnalysisHandler.handle: two requests on one handler,  *)
(* which share its CallGraphAnalyzer and its PatternExtractor. A request   *)
(* can be suspended where it awaits the store or the file extractor; the   *)
(* awaits of analyze_codebase and extract_patterns reach no such point, so *)
(* the code from analyze_codebase to the pattern summary is one step.      *)
(***************************************************************************)
Requests == {1, 2}

\* the files os.walk finds in the repositories of the requests
HandlerRecords == {CsAlphaBeta, CsRepo, PyBeta}

\* pairs <<path, text>>: re.search finds text in the content of the file
ContentTable == {<<"b.cs", "services.Add">>}

ContentHas(f, text) == <<f.file_path, text>> \in ContentTable

\* _extract_csharp_patterns: the checks a content of the catalogue meets
ExtractCsharpPatterns(found, f) ==
    IF ContentHas(f, "services.Add")
    THEN [found EXCEPT
            !.design_patterns =
                Append(@, Observation("Dependency Injection", "high", f.file_path)),
            !.architectural_patterns =
                Append(@, Observation("Inversion of Control", "high", f.file_path))]
    ELSE found

\* _extract_python_patterns: the checks a content of the catalogue meets
ExtractPythonPatterns(found, f) ==
    IF ContentHas(f, "Factory") \/ ContentHas(f, "def create_")
    THEN [found EXCEPT !.design_patterns =
            Append(@, Observation("Factory Pattern", "high", f.file_path))]
    ELSE found

\* "for file_info in files" of extract_patterns
RECURSIVE ExtractFilePatterns(_, _)
ExtractFilePatterns(found, files) ==
    IF files = <<>> THEN found
    ELSE LET tag == Lower(files[1].code_language)
             next == IF tag \in CsharpTags
                     THEN ExtractCsharpPatterns(found, files[1])
                     ELSE IF tag \in PythonTags
                     THEN ExtractPythonPatterns(found, files[1])
                     ELSE found
         IN  ExtractFilePatterns(next, Tail(files))

\* extract_patterns resets self.patterns_found first
ResetFound(found) == EmptyPatterns

\* extract_patterns(repo_path, files, call_graph_results) on a repository
\* whose folders give no signal
ExtractPatterns(found, files, results) ==
    DeduplicatePatterns(
        AnalyzeCallGraphPatterns(
            ExtractFilePatterns(ResetFound(found), files), results))

\* the if/elif chain of analyze_codebase on one record
AnalyzeFile(G, f) ==
    LET tag == Lower(f.code_language)
    IN  IF tag \in CsharpTags THEN AnalyzeCsharpFile(G, f)
        ELSE IF tag \in TypescriptTags THEN AnalyzeTypescriptFile(G, f)
        ELSE IF tag \in JavascriptTags THEN AnalyzeJavascriptFile(G, f)
        ELSE IF tag \in PythonTags THEN AnalyzePythonFile(G, f)
        ELSE G

RECURSIVE AnalyzeFiles(_, _)
AnalyzeFiles(G, files) ==
    IF files = <<>> THEN G
    ELSE AnalyzeFiles(AnalyzeFile(G, files[1]), Tail(files))

\* the graph analyze_codebase leaves in self.call_graph, every file
\* readable
AnalyzeCodebase(G, files) ==
    BuildCrossFileRelationships(AnalyzeFiles(ClearGraph(G), files), {})

HandlerIdle ==
    /\ hd_pc = [r \in Requests |-> "idle"]
    /\ hd_file_infos = [r \in Requests |-> <<>>]
    /\ hd_results = [r \in Requests |-> NoResult]

OutputIdle == cg_export = NoResult /\ HandlerIdle

HandlerFrame ==
    UNCHANGED <<cg_pc, cg_files, cg_unreadable, cg_result, pat_pc, pat_observed,
                call_graph_results, chunkVars, extractVars, runVars, cg_export,
                fileChunkVars>>

\* handle is entered and has stored the repository
HandleBegin ==
    \E r \in Requests :
        /\ hd_pc[r] = "idle"
        /\ hd_pc' = [hd_pc EXCEPT ![r] = "files"]
        /\ UNCHANGED <<hd_file_infos, hd_results, call_graph, patterns_found>>
        /\ HandlerFrame

\* one file of the walk: extracted, appended to file_infos, stored
HandleFile ==
    \E r \in Requests, f \in HandlerRecords :
        /\ hd_pc[r] = "files"
        /\ Len(hd_file_infos[r]) < MaxRequestFiles
        /\ \A i \in 1..Len(hd_file_infos[r]) : hd_file_infos[r][i] # f
        /\ hd_file_infos' = [hd_file_infos EXCEPT ![r] = Append(@, f)]
        /\ UNCHANGED <<hd_pc, hd_results, call_graph, patterns_found>>
        /\ HandlerFrame

\* analyze_codebase, export_graph_to_json and extract_patterns on the
\* file_infos of the request; concurrent is history: another request was
\* under way
HandleAnalyze ==
    \E r \in Requests :
        /\ hd_pc[r] = "files"
        /\ LET G == AnalyzeCodebase(call_graph, hd_file_infos[r])
               results == GenerateAnalysisResults(G)
               report == ExtractPatterns(patterns_found, hd_file_infos[r],
                                         HandlerCallGraph(results))
           IN  /\ call_graph' = G
               /\ patterns_found' = report
               /\ hd_results' = [hd_results EXCEPT ![r] =
                      [call_graph |-> results,
                       export |-> ExportGraphToJson(G),
                       patterns |-> report,
                       concurrent |-> \E q \in Requests \ {r} :
                                         hd_pc[q] \in {"files", "analyzed"}]]
        /\ hd_pc' = [hd_pc EXCEPT ![r] = "analyzed"]
        /\ UNCHANGED hd_file_infos
        /\ HandlerFrame

\* the environment analysis and the report are done: handle returns
HandleFinish ==
    \E r \in Requests :
        /\ hd_pc[r] = "analyzed"
        /\ hd_pc' = [hd_pc EXCEPT ![r] = "returned"]
        /\ UNCHANGED <<hd_file_infos, hd_results, call_graph, patterns_found>>
        /\ HandlerFrame

HandlerNext ==
    \/ HandleBegin
    \/ HandleFile
    \/ HandleAnalyze
    \/ HandleFinish

(***************************************************************************)
(* CodeChunker._chunk_generic                                              *)
(***************************************************************************)
\* lengths the lines of a content are drawn from
LineLengths == {0, 94, 1990}

Contents == UNION {[1..n -> LineLengths] : n \in 1..MaxLines}

\* len('\n'.join(lines)) for the lines with the given indices
JoinedLength(lines, idxs) ==
    SumSeq([k \in 1..Len(idxs) |-> lines[idxs[k]]]) + (Len(idxs) - 1)

\* len(content)
ContentLength(lines) == JoinedLength(lines, [k \in 1..Len(lines) |-> k])

\* sum(len(l) + 1 for l in current_chunk)
SizeOf(lines, idxs) == SumSeq([k \in 1..Len(idxs) |-> lines[idxs[k]] + 1])

Min(a, b) == IF a < b THEN a ELSE b

\* current_chunk[-n:]
LastLines(s, n) == SubSeq(s, Len(s) - n + 1, Len(s))

Chunk(type, idxs) == [type |-> type, lines |-> idxs, line_count |-> Len(idxs)]

ChunkIdle ==
    /\ ch_pc = "idle"
    /\ ch_idx = 1
    /\ current_chunk = <<>>
    /\ current_size = 0
    /\ chunks = <<>>

\* a content of at most max_chunk_size characters is returned as one chunk
ChunkWhole ==
    /\ ch_pc = "idle"
    /\ ContentLength(ch_lines) <= max_chunk_size
    /\ chunks' = <<Chunk("file", [k \in 1..Len(ch_lines) |-> k])>>
    /\ ch_pc' = "done"
    /\ UNCHANGED <<ch_lines, ch_idx, current_chunk, current_size>>
    /\ ChunkFrame

\* a longer content enters the line loop
ChunkSplit ==
    /\ ch_pc = "idle"
    /\ ContentLength(ch_lines) > max_chunk_size
    /\ ch_pc' = "loop"
    /\ UNCHANGED <<ch_lines, ch_idx, current_chunk, current_size, chunks>>
    /\ ChunkFrame

\* mutant of ClosesChunk: the minimum-size condition is forgotten
ClosesChunk_IgnoresMinimum(size, line_size) ==
    size + line_size > max_chunk_size

\* the test that stores the current chunk before the line is taken
ClosesChunk(size, line_size) ==
    size + line_size > max_chunk_size /\ size > min_chunk_size

\* one iteration of "for line in lines" that stores the current chunk and
\* seeds the next one with its last lines and the line
ChunkClose ==
    /\ ch_pc = "loop" /\ ch_idx <= Len(ch_lines)
    /\ ClosesChunk(current_size, ch_lines[ch_idx] + 1)
    /\ chunks' = Append(chunks, Chunk("code_segment", current_chunk))
    /\ LET seeded == LastLines(current_chunk, Min(Len(current_chunk), overlap_lines))
                        \o <<ch_idx>>
       IN  /\ current_chunk' = seeded
           /\ current_size' = SizeOf(ch_lines, seeded)
    /\ ch_idx' = ch_idx + 1
    /\ UNCHANGED <<ch_pc, ch_lines>>
    /\ ChunkFrame

\* one iteration that appends the line to the current chunk
ChunkAppend ==
    /\ ch_pc = "loop" /\ ch_idx <= Len(ch_lines)
    /\ ~ClosesChunk(current_size, ch_lines[ch_idx] + 1)
    /\ current_chunk' = Append(current_chunk, ch_idx)
    /\ current_size' = current_size + ch_lines[ch_idx] + 1
    /\ ch_idx' = ch_idx + 1
    /\ UNCHANGED <<ch_pc, ch_lines, chunks>>
    /\ ChunkFrame

\* after the loop: the last chunk is stored when it is not empty and
\* larger than min_chunk_size
ChunkLast ==
    /\ ch_pc = "loop" /\ ch_idx > Len(ch_lines)
    /\ chunks' = IF current_chunk # <<>> /\ current_size > min_chunk_size
                 THEN Append(chunks, Chunk("code_segment", current_chunk))
                 ELSE chunks
    /\ ch_pc' = "done"
    /\ UNCHANGED <<ch_lines, ch_idx, current_chunk, current_size>>
    /\ ChunkFrame

ChunkNext ==
    \/ ChunkWhole
    \/ ChunkSplit
    \/ ChunkClose
    \/ ChunkAppend
    \/ ChunkLast

(***************************************************************************)
(* CodeExtractor.extract_knowledge_from_file                               *)
(***************************************************************************)
\* the content argument when the caller passes none
None == "None"

\* source texts, by what the parsers make of them: "nested" is an
\* expression nested deeper than the interpreter's parser recursion limit
SourceTexts == {"empty", "plain", "malformed", "nested"}

\* what open(file_path).read() meets: a text, no such file, or bytes that
\* are not UTF-8
Unreadable == {"missing", "undecodable"}

ExtractPaths == {"t.ts", "p.py"}

LanguageTags ==
    {"csharp", "CS", "c#", "TypeScript", "ts", "JS", "javascript",
     "python", "PY", "Java", "text", ""}

Calls ==
    [file_path : ExtractPaths, language : LanguageTags,
     content : SourceTexts \cup {None}, on_disk : SourceTexts \cup Unreadable]

NoCall == [file_path |-> "", language |-> "", content |-> None, on_disk |-> "missing"]

\* file_path.endswith(".ts")
EndsWithTs(path) == path = "t.ts"

\* ast.parse(content): a tree, or the exception it raises
AstParse(content) ==
    CASE content = "malformed" -> "SyntaxError"
      [] content = "nested" -> "RecursionError"
      [] OTHER -> "tree"

\* what the extractors hand back: the call's end, the extractors that ran
\* and the returned dict; shape stands for the dict's set of keys
Returned(ran, result) == [pc |-> "returned", ran |-> ran, result |-> result]
Raised(ran, exception) == [pc |-> "raised", ran |-> ran, result |-> [exception |-> exception]]

ExtractCsharpKnowledge(file_path, content) ==
    Returned(<<"csharp">>,
        [shape |-> "csharp", file_path |-> file_path,
         code_language |-> "csharp", content |-> content])

ExtractTypescriptKnowledge(file_path, content) ==
    Returned(<<"typescript">>,
        [shape |-> "typescript", file_path |-> file_path,
         code_language |-> IF EndsWithTs(file_path) THEN "typescript" ELSE "javascript",
         content |-> content])

ExtractGenericKnowledge(file_path, content, language) ==
    Returned(<<"generic">>,
        [shape |-> "generic", file_path |-> file_path,
         code_language |-> language, content |-> content])

\* only SyntaxError is caught and answered by the generic extractor
ExtractPythonKnowledge(file_path, content) ==
    LET parsed == AstParse(content)
        generic == ExtractGenericKnowledge(file_path, content, "python")
    IN  CASE parsed = "tree" ->
               Returned(<<"python">>,
                   [shape |-> "python", file_path |-> file_path,
                    code_language |-> "python", content |-> content])
          [] parsed = "SyntaxError" ->
               Returned(<<"python">> \o generic.ran, generic.result)
          [] OTHER -> Raised(<<"python">>, parsed)

\* mutant of ReadContent: a failed read is taken for an empty file
ReadContent_FailureAsEmpty(call) ==
    IF call.content # None
    THEN [ok |-> TRUE, content |-> call.content]
    ELSE [ok |-> TRUE, content |-> IF call.on_disk \in Unreadable
                                   THEN "empty" ELSE call.on_disk]

\* "if content is None": the file is read, and a failed read is kept
ReadContent(call) ==
    IF call.content # None
    THEN [ok |-> TRUE, content |-> call.content]
    ELSE IF call.on_disk \in Unreadable
         THEN [ok |-> FALSE, error |-> call.on_disk]
         ELSE [ok |-> TRUE, content |-> call.on_disk]

ExtractKnowledgeFromFile(call) ==
    LET read == ReadContent(call)
        tag == Lower(call.language)
    IN  IF ~read.ok
        THEN Returned(<<>>, [error |-> read.error])
        ELSE CASE tag \in CsharpTags ->
                    ExtractCsharpKnowledge(call.file_path, read.content)
               [] tag \in TypescriptTags \cup JavascriptTags ->
                    ExtractTypescriptKnowledge(call.file_path, read.content)
               [] tag \in PythonTags ->
                    ExtractPythonKnowledge(call.file_path, read.content)
               [] OTHER ->
                    ExtractGenericKnowledge(call.file_path, read.content, call.language)

ExtractIdle ==
    /\ ex_pc = "idle"
    /\ ex_call = NoCall
    /\ ex_ran = <<>>
    /\ ex_result = [status |-> "none"]

\* one whole call of extract_knowledge_from_file
ExtractCall(call) ==
    LET r == ExtractKnowledgeFromFile(call)
    IN  /\ ex_call' = call
        /\ ex_pc' = r.pc
        /\ ex_ran' = r.ran
        /\ ex_result' = r.result
        /\ ExtractFrame

HasContent(call) == call.content # None \/ call.on_disk \notin Unreadable

\* a call without content on a path that cannot be read
ExtractUnreadable ==
    \E call \in Calls : ~HasContent(call) /\ ExtractCall(call)

ExtractCsharp ==
    \E call \in Calls :
        /\ HasContent(call) /\ Lower(call.language) \in CsharpTags
        /\ ExtractCall(call)

ExtractTypescript ==
    \E call \in Calls :
        /\ HasContent(call)
        /\ Lower(call.language) \in TypescriptTags \cup JavascriptTags
        /\ ExtractCall(call)

ExtractPython ==
    \E call \in Calls :
        /\ HasContent(call) /\ Lower(call.language) \in PythonTags
        /\ ExtractCall(call)

ExtractGeneric ==
    \E call \in Calls :
        /\ HasContent(call)
        /\ Lower(call.language) \notin
             CsharpTags \cup TypescriptTags \cup JavascriptTags \cup PythonTags
        /\ ExtractCall(call)

ExtractNext ==
    \/ ExtractUnreadable
    \/ ExtractCsharp
    \/ ExtractTypescript
    \/ ExtractPython
    \/ ExtractGeneric

(***************************************************************************)
(* CodeExtractor: the classes of a file and the methods listed under them  *)
(***************************************************************************)
\* A declaration text is the sequence of its lines: the header of a class,
\* which opens a block, a method with its whole body, or the end of a
\* block.  Each extractor reads the text written in its own language:
\*              C#                        TypeScript          Python
\*   class   public class A {          export class A {    class A:
\*   method  public void m1() { }      public m1() { }     def m1(self): pass
\*   close   }                         }                   (one level back)
DeclClassNames == {"A", "B"}

DeclMethodNames == {"m1", "m2"}

ClassLine(name) == [kind |-> "class", name |-> name]

MethodLine(name) == [kind |-> "method", name |-> name]

CloseLine == [kind |-> "close", name |-> ""]

DeclLines ==
    {ClassLine(n) : n \in DeclClassNames}
        \cup {MethodLine(n) : n \in DeclMethodNames} \cup {CloseLine}

DeclTexts == UNION {[1..n -> DeclLines] : n \in 0..MaxDeclLines}

\* the lines of a kind, in the order re.finditer meets them
LinesOfKind(text, kind) ==
    SelectSeq([k \in 1..Len(text) |-> k], LAMBDA k : text[k].kind = kind)

\* the scan for the closing brace from line k on with brace_count blocks
\* open: the line that brings the count to 0, or 0 when the text ends first
RECURSIVE MatchingClose(_, _, _)
MatchingClose(text, k, brace_count) ==
    IF k > Len(text) THEN 0
    ELSE CASE text[k].kind = "class" -> MatchingClose(text, k + 1, brace_count + 1)
           [] text[k].kind = "close" ->
                IF brace_count = 1 THEN k
                ELSE MatchingClose(text, k + 1, brace_count - 1)
           [] OTHER -> MatchingClose(text, k + 1, brace_count)

\* the methods the method pattern finds in the lines from..to
MethodsFound(text, from, to) ==
    LET found == SelectSeq(LinesOfKind(text, "method"),
                           LAMBDA k : from <= k /\ k <= to)
    IN  [n \in 1..Len(found) |-> Method(text[found[n]].name)]

\* class_content = content[start_pos:end_pos]; end_pos stays at start_pos
\* when no closing brace matches
CsharpClassContent(text, at) ==
    LET end_pos == MatchingClose(text, at + 1, 1)
    IN  IF end_pos = 0 THEN [from |-> at + 1, to |-> at]
        ELSE [from |-> at + 1, to |-> end_pos - 1]

\* extract_csharp_knowledge: the methods are searched in class_content
CsharpClasses(text) ==
    LET at == LinesOfKind(text, "class")
    IN  [n \in 1..Len(at) |->
            LET class_content == CsharpClassContent(text, at[n])
            IN  ClassDecl(text[at[n]].name, <<>>,
                    MethodsFound(text, class_content.from, class_content.to))]

\* extract_typescript_knowledge: the methods are searched in content
TypescriptClasses(text) ==
    LET at == LinesOfKind(text, "class")
    IN  [n \in 1..Len(at) |->
            ClassDecl(text[at[n]].name, <<>>, MethodsFound(text, 1, Len(text)))]

\* the blocks open before line k
Depth(text, k) ==
    Cardinality({j \in 1..(k - 1) : text[j].kind = "class"})
        - Cardinality({j \in 1..(k - 1) : text[j].kind = "close"})

\* a text that can be written in Python: no line goes back from level 0
Indentable(text) ==
    \A k \in 1..Len(text) : text[k].kind = "close" => Depth(text, k) > 0

\* ast.parse returns a tree: every class has a body
Parses(text) ==
    \A k \in 1..Len(text) :
        text[k].kind = "class" => k < Len(text) /\ text[k + 1].kind # "close"

\* the last line of the block that line at opens
BlockEnd(text, at) ==
    LET close == MatchingClose(text, at + 1, 1)
    IN  IF close = 0 THEN Len(text) ELSE close - 1

\* extract_python_knowledge on a tree: the ClassDef children of the module,
\* each with the FunctionDef items of its body
PythonClasses(text) ==
    LET at == SelectSeq(LinesOfKind(text, "class"), LAMBDA k : Depth(text, k) = 0)
    IN  [n \in 1..Len(at) |->
            LET body == SelectSeq(LinesOfKind(text, "method"),
                            LAMBDA k : /\ at[n] < k /\ k <= BlockEnd(text, at[n])
                                       /\ Depth(text, k) = 1)
            IN  ClassDecl(text[at[n]].name, <<>>,
                    [m \in 1..Len(body) |-> Method(text[body[m]].name)])]

\* the FunctionDef children of the module
PythonFunctions(text) ==
    LET at == SelectSeq(LinesOfKind(text, "method"), LAMBDA k : Depth(text, k) = 0)
    IN  [n \in 1..Len(at) |-> PyFunction(text[at[n]].name)]

\* extract_generic_knowledge after a SyntaxError: names only
GenericClasses(text) ==
    LET at == LinesOfKind(text, "class")
    IN  [n \in 1..Len(at) |-> ClassDecl(text[at[n]].name, <<>>, NoMethods)]

GenericFunctions(text) ==
    LET at == LinesOfKind(text, "method")
    IN  [n \in 1..Len(at) |-> PyFunction(text[at[n]].name)]

\* the record of the file in each language
CsharpRecord(text) ==
    FileRecord("two.cs", "csharp", UnknownNamespace, CsharpClasses(text),
        <<>>, <<>>, <<>>, <<>>)

TypescriptRecord(text) ==
    FileRecord("two.ts", "typescript", UnknownNamespace, TypescriptClasses(text),
        <<>>, <<>>, <<>>, <<>>)

PythonRecord(text) ==
    IF Parses(text)
    THEN FileRecord("two.py", "python", UnknownNamespace, PythonClasses(text),
             <<>>, <<>>, PythonFunctions(text), <<>>)
    ELSE FileRecord("two.py", "python", UnknownNamespace, GenericClasses(text),
             <<>>, <<>>, GenericFunctions(text), <<>>)

\* one call of extract_knowledge_from_file with the text as content
ExtractDeclarations(language, text, record) ==
    /\ ex_call' = [file_path |-> record.file_path, language |-> language,
                   content |-> text, on_disk |-> "missing"]
    /\ ex_pc' = "returned"
    /\ ex_ran' = <<language>>
    /\ ex_result' = record
    /\ ExtractFrame

\* the file is extracted once, before the graph is built
NotExtracted == ex_pc = "idle" /\ cg_pc = "idle"

ExtractCsharpDeclarations ==
    /\ NotExtracted
    /\ \E text \in DeclTexts :
          ExtractDeclarations("csharp", text, CsharpRecord(text))

ExtractTypescriptDeclarations ==
    /\ NotExtracted
    /\ \E text \in DeclTexts :
          ExtractDeclarations("typescript", text, TypescriptRecord(text))

ExtractPythonDeclarations ==
    /\ NotExtracted
    /\ \E text \in DeclTexts :
          /\ Indentable(text)
          /\ ExtractDeclarations("python", text, PythonRecord(text))

\* the record the extractor returned is the one file of the build
AnalyzeExtracted ==
    /\ ex_pc = "returned"
    /\ cg_files = <<>>
    /\ cg_pc = "files"
    /\ LET tag == Lower(ex_result.code_language)
       IN  call_graph' =
               CASE tag \in CsharpTags -> AnalyzeCsharpFile(call_graph, ex_result)
                 [] tag \in TypescriptTags -> AnalyzeTypescriptFile(call_graph, ex_result)
                 [] tag \in PythonTags -> AnalyzePythonFile(call_graph, ex_result)
                 [] OTHER -> call_graph
    /\ cg_files' = <<ex_result>>
    /\ UNCHANGED <<cg_pc, cg_unreadable, cg_result>>
    /\ GraphFrame

DeclarationsNext ==
    \/ ExtractCsharpDeclarations
    \/ ExtractTypescriptDeclarations
    \/ ExtractPythonDeclarations
    \/ StartAnalysis
    \/ AnalyzeExtracted

(***************************************************************************)
(* CodeChunker.chunk_file and the C#, TypeScript and Python chunkers       *)
(***************************************************************************)
\* A source text is the sequence of its lines. A line is an identifier of
\* len characters (kind text) or one of the texts
\*   cs_class    public class A {
\*   ts_class    export class A {
\*   component   @Component({selector: 'x'}) export class A {
\*   cs_method   public void M() {
\*   ts_method   public m() {
\*   close       }
\*   py_class    class A: pass
\*   py_def      def main(): return 1
\* Character positions count from 0, as str indices do.
LineLen(kind) ==
    CASE kind = "cs_class" -> 16
      [] kind = "ts_class" -> 16
      [] kind = "component" -> 44
      [] kind = "cs_method" -> 17
      [] kind = "ts_method" -> 12
      [] kind = "close" -> 1
      [] kind = "py_class" -> 13
      [] kind = "py_def" -> 20

CodeLine(kind) == [kind |-> kind, len |-> LineLen(kind)]

TextLine(n) == [kind |-> "text", len |-> n]

\* the braces of a line: offset in the line, +1 for { and -1 for }
LineBraces(kind) ==
    CASE kind \in {"cs_class", "ts_class"} -> << <<15, 1>> >>
      [] kind = "component" -> << <<11, 1>>, <<25, -1>>, <<43, 1>> >>
      [] kind = "cs_method" -> << <<16, 1>> >>
      [] kind = "ts_method" -> << <<11, 1>> >>
      [] kind = "close" -> << <<0, -1>> >>
      [] OTHER -> <<>>

\* position of the first character of line i of '\n'.join(lines)
LineStart(content, i) == SumSeq([k \in 1..(i - 1) |-> content[k].len + 1])

LineStop(content, i) == LineStart(content, i) + content[i].len

\* len(content)
TextLength(content) == LineStop(content, Len(content))

\* the braces of the content, in text order
RECURSIVE BracesFrom(_, _)
BracesFrom(content, i) ==
    IF i > Len(content) THEN <<>>
    ELSE LET here == LineBraces(content[i].kind)
         IN  [k \in 1..Len(here) |->
                 [pos |-> LineStart(content, i) + here[k][1], delta |-> here[k][2]]]
             \o BracesFrom(content, i + 1)

Braces(content) == BracesFrom(content, 1)

\* the brace loop "for i in range(from, stop)": the position after the
\* closing brace that takes brace_count back to 0 once an opening brace
\* was seen, and default when the loop ends without a break
RECURSIVE MatchingBrace(_, _, _, _, _, _)
MatchingBrace(braces, from, stop, brace_count, in_class, default) ==
    IF braces = <<>> THEN default
    ELSE LET b == braces[1]
         IN  IF b.pos < from
             THEN MatchingBrace(Tail(braces), from, stop, brace_count, in_class, default)
             ELSE IF b.pos >= stop THEN default
             ELSE IF b.delta = 1
             THEN MatchingBrace(Tail(braces), from, stop, brace_count + 1, TRUE, default)
             ELSE IF in_class /\ brace_count - 1 = 0 THEN b.pos + 1
             ELSE MatchingBrace(Tail(braces), from, stop, brace_count - 1,
                                in_class, default)

NoMatch == -100

\* where in a line each pattern's match starts (NoMatch: no match in the
\* line); the optional modifier and \s* of the class patterns let a match
\* start inside "public class"/"export class" of the other language
CsClassOffset(kind) ==
    CASE kind = "cs_class" -> 0
      [] kind = "ts_class" -> 6
      [] kind = "component" -> 34
      [] OTHER -> NoMatch

TsClassOffset(kind) ==
    CASE kind = "ts_class" -> 0
      [] kind = "cs_class" -> 6
      [] kind = "component" -> 28
      [] OTHER -> NoMatch

\* "public m() {" is matched from the line break before it, with public
\* as the return type
CsMethodOffset(kind) ==
    CASE kind = "cs_method" -> 0
      [] kind = "ts_method" -> -1
      [] OTHER -> NoMatch

\* name(...) is all the TypeScript method pattern asks for
TsMethodOffset(kind) ==
    CASE kind = "ts_method" -> 0
      [] kind = "cs_method" -> 11
      [] kind = "component" -> 1
      [] kind = "py_def" -> 3
      [] OTHER -> NoMatch

\* re.finditer(pattern, content): the line and the start of each match
Matches(content, Offset(_)) ==
    LET found == SelectSeq([i \in 1..Len(content) |-> i],
                           LAMBDA i : Offset(content[i].kind) # NoMatch)
    IN  [k \in 1..Len(found) |->
            [line |-> found[k],
             start |-> LineStart(content, found[k])
                          + Offset(content[found[k]].kind)]]

\* a chunk dict: content[start:stop] with its type; decl is the line of
\* the declaration metadata names (class_name, component_name)
FileChunk(type, start, stop, decl) ==
    [type |-> type, start |-> start, stop |-> stop, decl |-> decl]

\* class_content = content[start_pos:end_pos] of a declaration
ClassSpan(content, start_pos) ==
    [start |-> start_pos,
     stop |-> MatchingBrace(Braces(content), start_pos, TextLength(content),
                            0, FALSE, start_pos)]

\* ---- _chunk_csharp
\* the method loop over class_content; a match runs to the first } after
\* its { when there is one, and the search goes on after the match
RECURSIVE CsMethodChunks(_, _, _, _, _)
CsMethodChunks(content, decl, ms, from, span) ==
    IF ms = <<>> THEN <<>>
    ELSE LET m == ms[1]
             inside == m.start >= from /\ LineStop(content, m.line) <= span.stop
             closing == SelectSeq(Braces(content),
                           LAMBDA b : /\ b.delta = -1
                                      /\ b.pos >= LineStop(content, m.line)
                                      /\ b.pos < span.stop)
             match_end == IF closing # <<>> THEN closing[1].pos + 1
                          ELSE LineStop(content, m.line)
             method_end == MatchingBrace(Braces(content), m.start, span.stop,
                                         0, FALSE, m.start)
         IN  IF ~inside THEN CsMethodChunks(content, decl, Tail(ms), from, span)
             ELSE (IF method_end - m.start > min_chunk_size
                   THEN <<FileChunk("method", m.start, method_end, decl)>>
                   ELSE <<>>)
                  \o CsMethodChunks(content, decl, Tail(ms), match_end, span)

\* the body of the class loop for one match
CsClassChunks(content, m) ==
    LET span == ClassSpan(content, m.start)
    IN  IF span.stop - span.start > max_chunk_size
        THEN <<FileChunk("class_declaration", span.start,
                         span.start + max_chunk_size, m.line)>>
             \o CsMethodChunks(content, m.line, Matches(content, CsMethodOffset),
                               span.start, span)
        ELSE <<FileChunk("class", span.start, span.stop, m.line)>>

RECURSIVE CsClassLoop(_, _)
CsClassLoop(content, ms) ==
    IF ms = <<>> THEN <<>>
    ELSE CsClassChunks(content, ms[1]) \o CsClassLoop(content, Tail(ms))

\* the chunks list before the fallback; no text of the catalogue declares
\* a namespace or an interface, so the header chunk and the interface
\* loop add nothing
ChunkCsharp(content) == CsClassLoop(content, Matches(content, CsClassOffset))

\* ---- _chunk_typescript
\* the loop over the @Component(...) export class matches: the brace loop
\* starts after the class name
RECURSIVE ComponentLoop(_, _)
ComponentLoop(content, i) ==
    IF i > Len(content) THEN <<>>
    ELSE (IF content[i].kind = "component"
          THEN LET class_start == LineStart(content, i) + 42
               IN  <<FileChunk("angular_component", LineStart(content, i),
                        MatchingBrace(Braces(content), class_start,
                                      TextLength(content), 0, FALSE, class_start),
                        i)>>
          ELSE <<>>)
         \o ComponentLoop(content, i + 1)

\* the method loop over class_content: the brace loop starts at the first
\* { at or after the match, and a match with no { after it is skipped
RECURSIVE TsMethodChunks(_, _, _, _)
TsMethodChunks(content, decl, ms, span) ==
    IF ms = <<>> THEN <<>>
    ELSE LET m == ms[1]
             inside == m.start >= span.start /\ LineStop(content, m.line) <= span.stop
             opening == SelectSeq(Braces(content),
                           LAMBDA b : /\ b.delta = 1
                                      /\ b.pos >= m.start
                                      /\ b.pos < span.stop)
             method_end == MatchingBrace(Braces(content), opening[1].pos,
                                         span.stop, 0, FALSE, m.start)
         IN  (IF inside /\ opening # <<>> /\ method_end - m.start > min_chunk_size
              THEN <<FileChunk("method", m.start, method_end, decl)>>
              ELSE <<>>)
             \o TsMethodChunks(content, decl, Tail(ms), span)

TsClassChunks(content, m) ==
    LET span == ClassSpan(content, m.start)
    IN  IF span.stop - span.start > max_chunk_size
        THEN <<FileChunk("class_declaration", span.start,
                         span.start + max_chunk_size, m.line)>>
             \o TsMethodChunks(content, m.line, Matches(content, TsMethodOffset), span)
        ELSE <<FileChunk("class", span.start, span.stop, m.line)>>

RECURSIVE TsClassLoop(_, _)
TsClassLoop(content, ms) ==
    IF ms = <<>> THEN <<>>
    ELSE TsClassChunks(content, ms[1]) \o TsClassLoop(content, Tail(ms))

\* the chunks list before the fallback; no text of the catalogue has an
\* import or a function declaration, so the header chunk and the function
\* loop add nothing
ChunkTypescript(content) ==
    ComponentLoop(content, 1) \o TsClassLoop(content, Matches(content, TsClassOffset))

\* ---- _chunk_python
\* ast.parse succeeds on the texts made of one-line statements
PythonKinds == {"py_class", "py_def", "text"}

AstParses(content) == \A i \in 1..Len(content) : content[i].kind \in PythonKinds

\* the chunk of lines[first - 1:last] (first and last count from 1)
LinesChunk(content, type, first, last, decl) ==
    FileChunk(type, LineStart(content, first), LineStop(content, last), decl)

\* the class loop: class_end is the 1-based line number of the last node
\* and is used as a 0-based index, so the slice takes in the next line
RECURSIVE PyClassLoop(_, _)
PyClassLoop(content, i) ==
    IF i > Len(content) THEN <<>>
    ELSE (IF content[i].kind = "py_class"
          THEN LET whole == LinesChunk(content, "class", i,
                                       Min(i + 1, Len(content)), i)
               IN  IF whole.stop - whole.start > max_chunk_size
                   THEN <<LinesChunk(content, "class_declaration", i,
                                     Min(i + 2, Len(content)), i)>>
                   ELSE <<whole>>
          ELSE <<>>)
         \o PyClassLoop(content, i + 1)

\* the function loop reads node.parent of the first top-level FunctionDef,
\* an attribute ast nodes do not have: AttributeError
FunctionLoopRaises(content) ==
    \E i \in 1..Len(content) : content[i].kind = "py_def"

\* ---- chunk_file
EmptyText == <<TextLine(0)>>

\* texts of one language each: a class pattern that finds ':' after the
\* class name runs on to the next '{' of the text
ChunkSources ==
    {EmptyText,
     <<TextLine(10)>>,
     <<TextLine(1990), TextLine(10)>>,
     <<CodeLine("cs_class"), CodeLine("cs_method"), TextLine(10),
       CodeLine("close"), CodeLine("close")>>,
     <<CodeLine("cs_class"), CodeLine("cs_method"), TextLine(150),
       CodeLine("close"), CodeLine("cs_method"), TextLine(10),
       CodeLine("close"), TextLine(1990), CodeLine("close")>>,
     <<CodeLine("cs_class"), CodeLine("cs_method"), TextLine(10)>>,
     <<CodeLine("cs_class"), CodeLine("close"),
       CodeLine("cs_class"), CodeLine("close")>>,
     <<CodeLine("ts_class"), CodeLine("ts_method"), TextLine(10),
       CodeLine("close"), CodeLine("close")>>,
     <<CodeLine("ts_class"), CodeLine("ts_method"), TextLine(150),
       CodeLine("close"), CodeLine("ts_method"), TextLine(10),
       CodeLine("close"), TextLine(1990), CodeLine("close")>>,
     <<CodeLine("component"), CodeLine("ts_method"), TextLine(10),
       CodeLine("close"), CodeLine("close")>>,
     <<CodeLine("py_def")>>,
     <<CodeLine("py_class"), TextLine(10)>>,
     <<CodeLine("py_class"), TextLine(1990), TextLine(10), TextLine(10)>>,
     <<CodeLine("py_class"), CodeLine("py_def")>>}

\* content is the argument, or what open(file_path).read() gives when the
\* argument is None and the file can be read
ChunkCalls ==
    [language : LanguageTags, has_content : {TRUE}, readable : {TRUE},
     content : ChunkSources]
    \cup [language : LanguageTags, has_content : {FALSE}, readable : {TRUE},
          content : {<<TextLine(10)>>}]
    \cup [language : LanguageTags, has_content : {FALSE}, readable : {FALSE},
          content : {EmptyText}]

\* no call yet
FileChunkCalled(call) ==
    /\ cf_pc = "idle"
    /\ cf_call = call
    /\ cf_chunks = <<>>

\* a chunker that is not called
FileChunkIdle ==
    FileChunkCalled([language |-> "", has_content |-> FALSE, readable |-> FALSE,
                     content |-> EmptyText])

\* the list is returned
FileChunkReturns(result) ==
    /\ cf_pc' = "returned"
    /\ cf_chunks' = result
    /\ UNCHANGED <<cf_call, chunkVars>>
    /\ FileChunkFrame

\* _chunk_generic is called on the content
FileChunkFallsBack ==
    /\ cf_pc' = "generic"
    /\ ch_lines' = [k \in 1..Len(cf_call.content) |-> cf_call.content[k].len]
    /\ UNCHANGED <<cf_call, cf_chunks, ch_pc, ch_idx, current_chunk, current_size, chunks>>
    /\ FileChunkFrame

\* a chunker's list is returned when it is not empty, and _chunk_generic
\* is called otherwise
ReturnsOrFallsBack(result) ==
    IF result # <<>> THEN FileChunkReturns(result) ELSE FileChunkFallsBack

CanChunk == cf_pc = "idle" /\ (cf_call.has_content \/ cf_call.readable)

\* content is None and open() or read() raises
ChunkFileUnreadable ==
    /\ cf_pc = "idle"
    /\ ~cf_call.has_content /\ ~cf_call.readable
    /\ FileChunkReturns(<<[error |-> "Failed to read file"]>>)

ChunkFileCsharp ==
    /\ CanChunk
    /\ Lower(cf_call.language) \in CsharpTags
    /\ ReturnsOrFallsBack(ChunkCsharp(cf_call.content))

ChunkFileTypescript ==
    /\ CanChunk
    /\ Lower(cf_call.language) \in TypescriptTags \cup JavascriptTags
    /\ ReturnsOrFallsBack(ChunkTypescript(cf_call.content))

\* ast.parse raised SyntaxError: the except branch calls _chunk_generic
ChunkFilePythonSyntaxError ==
    /\ CanChunk
    /\ Lower(cf_call.language) \in PythonTags
    /\ ~AstParses(cf_call.content)
    /\ FileChunkFallsBack

\* the function loop raises, whatever the class loop appended
ChunkFilePythonRaises ==
    /\ CanChunk
    /\ Lower(cf_call.language) \in PythonTags
    /\ AstParses(cf_call.content)
    /\ FunctionLoopRaises(cf_call.content)
    /\ cf_pc' = "raised"
    /\ UNCHANGED <<cf_call, cf_chunks, chunkVars>>
    /\ FileChunkFrame

ChunkFilePython ==
    /\ CanChunk
    /\ Lower(cf_call.language) \in PythonTags
    /\ AstParses(cf_call.content)
    /\ ~FunctionLoopRaises(cf_call.content)
    /\ ReturnsOrFallsBack(PyClassLoop(cf_call.content, 1))

ChunkFileOther ==
    /\ CanChunk
    /\ Lower(cf_call.language) \notin
          CsharpTags \cup TypescriptTags \cup JavascriptTags \cup PythonTags
    /\ FileChunkFallsBack

\* a step of the _chunk_generic call
ChunkGenericStep ==
    /\ cf_pc = "generic"
    /\ ChunkNext

\* _chunk_generic returned its list
ChunkGenericReturns ==
    /\ cf_pc = "generic"
    /\ ch_pc = "done"
    /\ FileChunkReturns(chunks)

FileChunkNext ==
    \/ ChunkFileUnreadable
    \/ ChunkFileCsharp
    \/ ChunkFileTypescript
    \/ ChunkFilePythonSyntaxError
    \/ ChunkFilePythonRaises
    \/ ChunkFilePython
    \/ ChunkFileOther
    \/ ChunkGenericStep
    \/ ChunkGenericReturns

(***************************************************************************)
(* CodebaseAnalysisHandler.handle: the file loop, its checkpoints and its  *)
(* result.  A file is named by its place in os.walk order.  The loop over  *)
(* the batches and the loop over the files of a batch are one loop over    *)
(* all_files_to_process here; the test of the file limit that follows each *)
(* batch is made by the step that takes the batch's last file.             *)
(***************************************************************************)
RepoFiles == 1..NumFiles

\* file_limit is taken from the request as it is; 0 is a value a caller gives
FileLimits == 0..NumFiles

\* str(e) of the exception a file's processing raised
Errors == {"extraction failed", "chunking failed"}

\* int(time.time()) when the first run starts: ten digits, as in every
\* year from 2001 to 2286
StartTime == 1700000000

\* the clock of a run's checkpoints: one second later for each run
Now == StartTime + run_count

\* str(n) as character codes
RECURSIVE Str(_)
Str(n) == IF n < 10 THEN <<48 + n>> ELSE Append(Str(n \div 10), 48 + (n % 10))

\* f"checkpoint_{file_count}_{timestamp}.json" as character codes
CheckpointName(file_count_, timestamp) ==
    <<99, 104, 101, 99, 107, 112, 111, 105, 110, 116, 95>>
        \o Str(file_count_) \o <<95>> \o Str(timestamp)
        \o <<46, 106, 115, 111, 110>>

NameOf(ckpt) == CheckpointName(ckpt.file_count, ckpt.timestamp)

\* a < b for Python strings: by code at the first difference, a proper
\* prefix first
StrLess(a, b) ==
    \E i \in 1..(Len(b)) :
        /\ \A j \in 1..(i - 1) : j <= Len(a) /\ a[j] = b[j]
        /\ (i > Len(a) \/ a[i] < b[i])

\* sorted(checkpoint_files)[-1]
LatestCheckpoint(dir) ==
    CHOOSE c \in dir : \A d \in dir : d = c \/ StrLess(NameOf(d), NameOf(c))

\* s[-n:]
LastEntries(s, n) == IF Len(s) <= n THEN s ELSE SubSeq(s, Len(s) - n + 1, Len(s))

PathsOf(s) == {s[i].file_path : i \in 1..Len(s)}

\* the directory after _save_intermediate_results: open(.., "w") replaces a
\* file of the same name.  covered is history, not part of the file: the
\* files the run, and the runs it resumed from, had processed by then.
SaveIntermediateResults(dir, file_count_, file_results_, error_files_, timestamp, covered) ==
    LET summary ==
            [file_count |-> file_count_,
             timestamp |-> timestamp,
             files |-> LastEntries(file_results_, checkpoint_keep),
             errors |-> LastEntries(error_files_, checkpoint_keep),
             covered |-> covered]
    IN  {c \in dir : NameOf(c) # NameOf(summary)} \cup {summary}

\* the paths a loaded checkpoint puts into processed_files
CheckpointPaths(ckpt) == PathsOf(ckpt.files) \cup PathsOf(ckpt.errors)

\* the walk over the repository: on resume the processed files are skipped
FilesToProcess(resume, processed) ==
    SelectSeq([i \in RepoFiles |-> i],
              LAMBDA f : ~(resume /\ f \in processed))

\* mutant of RecordError: the failed file is recorded twice
RecordError_Twice(errors, file_path, error) ==
    Append(Append(errors, [file_path |-> file_path, error |-> error]),
           [file_path |-> file_path, error |-> error])

\* mutant of RecordError: the failed file is not recorded
RecordError_Dropped(errors, file_path, error) == errors

\* error_files.append({"file_path": file_path, "error": str(e)})
RecordError(errors, file_path, error) ==
    Append(errors, [file_path |-> file_path, error |-> error])

\* the dict handle returns
HandleResult(file_count_) ==
    [status |-> "success",
     repo_name |-> "repo",
     file_count |-> file_count_,
     output_dir |-> "ai_knowledge",
     documentation_dir |-> "ai_knowledge/docs"]

NoRunResult == [status |-> "none"]

NoStep == [outcome |-> "none"]

RunIdle ==
    /\ run_pc = "idle"
    /\ run_count = 0
    /\ run_params = [resume_from_checkpoint |-> FALSE, file_limit |-> NumFiles]
    /\ checkpoints = {}
    /\ processed_files = {}
    /\ all_files_to_process = <<>>
    /\ run_idx = 1
    /\ file_results = <<>>
    /\ error_files = <<>>
    /\ file_count = 0
    /\ run_result = NoRunResult
    /\ run_inherited = {}
    /\ last_step = NoStep

\* the files this run, and the runs it resumed from, have processed
Covered(file_results_, error_files_) ==
    run_inherited \cup PathsOf(file_results_) \cup PathsOf(error_files_)

\* handle up to the file loop: the lists start empty, the latest
\* checkpoint is loaded on resume, and the work list is built
StartRun ==
    /\ run_pc \in {"idle", "returned"}
    /\ run_count < MaxRuns
    /\ \E resume \in BOOLEAN, limit \in FileLimits :
         LET loaded == resume /\ checkpoints # {}
             ckpt == LatestCheckpoint(checkpoints)
             processed == IF loaded THEN CheckpointPaths(ckpt) ELSE {}
         IN  /\ run_params' = [resume_from_checkpoint |-> resume, file_limit |-> limit]
             /\ processed_files' = processed
             /\ file_count' = IF loaded THEN ckpt.file_count ELSE 0
             /\ run_inherited' = IF loaded THEN ckpt.covered ELSE {}
             /\ all_files_to_process' = FilesToProcess(resume, processed)
    /\ file_results' = <<>>
    /\ error_files' = <<>>
    /\ run_idx' = 1
    /\ run_pc' = "loop"
    /\ run_count' = run_count + 1
    /\ run_result' = NoRunResult
    /\ last_step' = NoStep
    /\ UNCHANGED checkpoints
    /\ RunFrame

StepRecord(outcome, error) ==
    [outcome |-> outcome,
     file_path |-> all_files_to_process[run_idx],
     error |-> error,
     index |-> run_idx,
     file_results |-> file_results,
     error_files |-> error_files,
     file_count |-> file_count]

\* "if file_count >= file_limit"
LimitReached(count) == count >= run_params.file_limit

\* the i-th file of the work list is the last file of its batch
EndsBatch(i) == i % batch_size = 0

\* one iteration whose extraction, documentation and chunking return: the
\* file is appended and counted whether or not the store took it
ProcessFile ==
    /\ run_pc = "loop" /\ run_idx <= Len(all_files_to_process)
    /\ \E stored \in BOOLEAN :
         last_step' = StepRecord(IF stored THEN "stored" ELSE "storage_failed", "")
    /\ LET results == Append(file_results, [file_path |-> all_files_to_process[run_idx]])
           count == file_count + 1
       IN  /\ file_results' = results
           /\ file_count' = count
           /\ checkpoints' =
                IF count % checkpoint_every = 0
                THEN SaveIntermediateResults(checkpoints, count, results,
                         error_files, Now, Covered(results, error_files))
                ELSE checkpoints
           /\ run_pc' = IF LimitReached(count) THEN "limit" ELSE "loop"
    /\ run_idx' = run_idx + 1
    /\ UNCHANGED <<run_count, run_params, processed_files, all_files_to_process,
                   error_files, run_result, run_inherited>>
    /\ RunFrame

\* one iteration in which extraction, documentation or chunking raises
FileRaises ==
    /\ run_pc = "loop" /\ run_idx <= Len(all_files_to_process)
    /\ \E e \in Errors :
         /\ error_files' = RecordError(error_files, all_files_to_process[run_idx], e)
         /\ last_step' = StepRecord("raised", e)
    /\ run_idx' = run_idx + 1
    /\ run_pc' = IF EndsBatch(run_idx) /\ LimitReached(file_count)
                 THEN "limit" ELSE "loop"
    /\ UNCHANGED <<run_count, run_params, checkpoints, processed_files,
                   all_files_to_process, file_results, file_count, run_result,
                   run_inherited>>
    /\ RunFrame

\* after the loop: the final checkpoint is saved and the result returned;
\* the locals other than the lists the result was made from are gone
FinishRun ==
    /\ \/ run_pc = "limit"
       \/ run_pc = "loop" /\ run_idx > Len(all_files_to_process)
    /\ checkpoints' =
         SaveIntermediateResults(checkpoints, file_count, file_results,
             error_files, Now, Covered(file_results, error_files))
    /\ run_result' = HandleResult(file_count)
    /\ run_pc' = "returned"
    /\ processed_files' = {}
    /\ all_files_to_process' = <<>>
    /\ run_idx' = 1
    /\ run_inherited' = {}
    /\ last_step' = NoStep
    /\ UNCHANGED <<run_count, run_params, file_results, error_files, file_count>>
    /\ RunFrame

\* the checkpoint the loop saves when file_count reaches count in a run
\* whose files so far all returned
PeriodicCheckpoint(count, timestamp) ==
    [file_count |-> count,
     timestamp |-> timestamp,
     files |-> LastEntries([i \in 1..count |-> [file_path |-> i]], checkpoint_keep),
     errors |-> <<>>,
     covered |-> 1..count]

\* the checkpoint directory a run leaves that was stopped after n files:
\* one checkpoint for every multiple of checkpoint_every it reached
StoppedRun(n, timestamp) ==
    {PeriodicCheckpoint(count, timestamp) :
        count \in {k \in 1..n : k % checkpoint_every = 0}}

\* the files an earlier process had gone through when it was stopped
StoppedAfter == {0, checkpoint_every, 2 * checkpoint_every, 3 * checkpoint_every}

\* a new process finds the directory of an earlier process's stopped run
ResumeIdle ==
    /\ run_pc = "idle"
    /\ run_count = 1
    /\ run_params = [resume_from_checkpoint |-> FALSE, file_limit |-> NumFiles]
    /\ \E n \in StoppedAfter : checkpoints = StoppedRun(n, StartTime + 1)
    /\ processed_files = {}
    /\ all_files_to_process = <<>>
    /\ run_idx = 1
    /\ file_results = <<>>
    /\ error_files = <<>>
    /\ file_count = 0
    /\ run_result = NoRunResult
    /\ run_inherited = {}
    /\ last_step = NoStep

RunNext ==
    \/ StartRun
    \/ ProcessFile
    \/ FileRaises
    \/ FinishRun

(***************************************************************************)
(* Specifications                                                          *)
(***************************************************************************)
\* a chunker that was handed no content
ChunkUnused == ChunkIdle /\ ch_lines = <<0>>

GraphInit == GraphIdle /\ OutputIdle /\ FileChunkIdle /\ PatternIdle /\ ChunkUnused /\ ExtractIdle /\ RunIdle

SpecGraph == GraphInit /\ [][GraphNext]_vars

SpecFolders == GraphInit /\ [][FolderNext]_vars

SpecExport == GraphInit /\ [][ExportNext]_vars

SpecReport == GraphInit /\ [][ReportNext]_vars

SpecHandler == GraphInit /\ [][HandlerNext]_vars

PatternInit == GraphIdle /\ OutputIdle /\ FileChunkIdle /\ PatternIdle /\ ChunkUnused /\ ExtractIdle /\ RunIdle

SpecPattern == PatternInit /\ [][PatternNext]_vars

\* _chunk_generic on any content of the bound
ChunkInit ==
    /\ GraphIdle /\ OutputIdle /\ FileChunkIdle /\ PatternIdle /\ ExtractIdle /\ RunIdle
    /\ ChunkIdle /\ ch_lines \in Contents

SpecChunk == ChunkInit /\ [][ChunkNext]_vars

ExtractInit == GraphIdle /\ OutputIdle /\ FileChunkIdle /\ PatternIdle /\ ChunkUnused /\ ExtractIdle /\ RunIdle

SpecExtract == ExtractInit /\ [][ExtractNext]_vars

RunInit == GraphIdle /\ OutputIdle /\ FileChunkIdle /\ PatternIdle /\ ChunkUnused /\ ExtractIdle /\ RunIdle

SpecRun == RunInit /\ [][RunNext]_vars

ResumeInit == GraphIdle /\ OutputIdle /\ FileChunkIdle /\ PatternIdle /\ ChunkUnused /\ ExtractIdle /\ ResumeIdle

SpecResume == ResumeInit /\ [][RunNext]_vars

SpecDeclarations == ExtractInit /\ [][DeclarationsNext]_vars

FileChunkInit ==
    /\ GraphIdle /\ OutputIdle /\ PatternIdle /\ ChunkUnused /\ ExtractIdle /\ RunIdle
    /\ \E call \in ChunkCalls : FileChunkCalled(call)

SpecChunkFile == FileChunkInit /\ [][FileChunkNext]_vars

(***************************************************************************)
(* Claims about the call-graph builder                                     *)
(***************************************************************************)
\* the attributes the insert calls logged for id n add up to
RECURSIVE MergedLog(_, _)
MergedLog(log, n) ==
    IF log = <<>> THEN EmptyAttrs
    ELSE LET before == MergedLog(SubSeq(log, 1, Len(log) - 1), n)
         IN  IF Last(log).id = n THEN MergeAttrs(before, Last(log).attrs)
             ELSE before

LoggedIds(G) == {G.log[k].id : k \in 1..Len(G.log)}

\* C1: inserting a node whose qualified name is already in the graph
\* leaves the node count unchanged and only updates that node's
\* attributes: at every point of a build no two node entries share a
\* name, the node count is the number of distinct names inserted so far,
\* and every node carries exactly the attributes its own insertions merged
C1_NodeInsertionIdempotent ==
    /\ \A i, j \in 1..Len(call_graph.nodes) :
          call_graph.nodes[i].id = call_graph.nodes[j].id => i = j
    /\ Len(call_graph.nodes) = Cardinality(LoggedIds(call_graph))
    /\ \A i \in 1..Len(call_graph.nodes) :
          call_graph.nodes[i].attrs
              = MergedLog(call_graph.log, call_graph.nodes[i].id)

\* C1 witness: a finished build in which some name was inserted twice,
\* the second time with another source file
C1_Witness_Reinserted ==
    /\ cg_pc = "done"
    /\ \E k, l \in 1..Len(call_graph.log) :
          /\ k < l
          /\ call_graph.log[k].id = call_graph.log[l].id
          /\ "file_path" \in DOMAIN call_graph.log[k].attrs
          /\ "file_path" \in DOMAIN call_graph.log[l].attrs
          /\ call_graph.log[k].attrs["file_path"] # call_graph.log[l].attrs["file_path"]

\* C2: the build of a.cs (namespace N, Alpha with M1, Beta : Alpha with
\* M1) holds the four nodes, the two contains edges and the edge
\* N.Beta inherits N.Alpha
C2_AlphaBetaScenario ==
    (cg_pc = "done" /\ cg_files = <<CsAlphaBeta>>) =>
        /\ NodeIds(call_graph) =
              {<<"N", "Alpha">>, <<"N", "Alpha", "M1">>,
               <<"N", "Beta">>, <<"N", "Beta", "M1">>}
        /\ HasEdgeOfKind(call_graph, <<"N", "Alpha">>, <<"N", "Alpha", "M1">>, "contains")
        /\ HasEdgeOfKind(call_graph, <<"N", "Beta">>, <<"N", "Beta", "M1">>, "contains")
        /\ HasEdgeOfKind(call_graph, <<"N", "Beta">>, <<"N", "Alpha">>, "inherits")

\* the edge kinds the builder inserted for the ordered pair (u, v)
InsertedKinds(G, u, v) ==
    {Get(G.elog[k].attrs, "type", "unknown") :
        k \in {l \in 1..Len(G.elog) : G.elog[l].src = u /\ G.elog[l].dst = v}}

\* the edge entries of kind from u to v
EdgesOfKind(G, u, v, kind) ==
    {i \in 1..Len(G.edges) :
        /\ G.edges[i].src = u /\ G.edges[i].dst = v
        /\ Get(G.edges[i].attrs, "type", "unknown") = kind}

\* C11: for every ordered pair of nodes the edges of the final graph are
\* exactly the distinct kinds the builder inserted for the pair: each
\* inserted kind is there, once, and no other kind is
C11_EdgesAreInsertedKinds ==
    cg_pc = "done" =>
        \A u, v \in NodeIds(call_graph) :
            /\ EdgeKinds(call_graph, u, v) = InsertedKinds(call_graph, u, v)
            /\ \A kind \in InsertedKinds(call_graph, u, v) :
                  Cardinality(EdgesOfKind(call_graph, u, v, kind)) = 1

\* the key the naming rule gives an entity declared under namespace ns
DeclaredKey(ns, name) ==
    IF ns = UnknownNamespace THEN <<name>> ELSE ns \o <<name>>

\* the keys of the classes and interfaces the C# record f declares
CsDeclaredKeys(f) ==
    {DeclaredKey(f.namespace, f.classes[i].name) : i \in 1..Len(f.classes)}
    \cup {DeclaredKey(f.namespace, f.interfaces[i].name) :
            i \in 1..Len(f.interfaces)}

\* the keys of the methods the C# record f declares
CsMethodKeys(f) ==
    UNION {{DeclaredKey(f.namespace, f.classes[i].name)
                \o <<f.classes[i].methods[j].name>> :
            j \in 1..Len(f.classes[i].methods)} : i \in 1..Len(f.classes)}

\* the ids the build inserted with the type, for the file of the path
InsertedFrom(G, path, types) ==
    {G.log[k].id : k \in {l \in 1..Len(G.log) :
        /\ Get(G.log[l].attrs, "file_path", "") = path
        /\ Get(G.log[l].attrs, "language", "") = "csharp"
        /\ Get(G.log[l].attrs, "type", "") \in types}}

\* C21: the class and interface nodes created from a C# file record are
\* keyed namespace.name when the namespace is known and by the bare name
\* when it is unknown, the method nodes by the class key followed by the
\* method name, and no declared entity is inserted under another key
C21_CsharpKeysFollowNamingRule ==
    cg_pc = "done" =>
        \A k \in 1..Len(cg_files) :
            Lower(cg_files[k].code_language) \in CsharpTags =>
                /\ InsertedFrom(call_graph, cg_files[k].file_path,
                                {"class", "interface"})
                      = CsDeclaredKeys(cg_files[k])
                /\ InsertedFrom(call_graph, cg_files[k].file_path, {"method"})
                      = CsMethodKeys(cg_files[k])

\* the add_edge calls of a step
NewEdgeCalls(before, after) ==
    {after.elog[k] : k \in (Len(before.elog) + 1)..Len(after.elog)}

\* an edge the cross-file pass may add: from a class node to an interface
\* node of the same non-empty namespace, the file of the class is read and
\* its text declares the class with a clause that names the interface
MayImplement(G, unreadable, e) ==
    /\ e.attrs = [type |-> "implements"]
    /\ HasNode(G, e.src) /\ HasNode(G, e.dst)
    /\ Get(NodeAttrs(G, e.src), "type", "") = "class"
    /\ Get(NodeAttrs(G, e.dst), "type", "") = "interface"
    /\ Get(NodeAttrs(G, e.src), "namespace", <<>>) # <<>>
    /\ Get(NodeAttrs(G, e.src), "namespace", <<>>)
          = Get(NodeAttrs(G, e.dst), "namespace", <<>>)
    /\ LET file_path == Get(NodeAttrs(G, e.src), "file_path", "")
       IN  /\ file_path \notin unreadable
           /\ \E f \in FileRecords \cup FolderRecords :
                 /\ f.file_path = file_path
                 /\ ClauseMatches(f, Last(e.src), Last(e.dst))

\* the edge entries the pass left as they were
KeptEdges(before, after) ==
    {k \in 1..Len(before.edges) :
        k <= Len(after.edges) /\ after.edges[k] = before.edges[k]}

\* C26: the cross-file pass is the step after the file loop; it adds no
\* node, every edge it adds is an implements edge from a class node to an
\* interface node of the same non-empty namespace whose class file could be
\* read and declares the class with a clause naming the interface, every
\* other edge is left as it was, and once the pass is over the graph of the
\* build does not change
C26_CrossFilePassOnlyImplements ==
    /\ [][(cg_pc = "files" /\ cg_pc' = "results") =>
            /\ cg_files' = cg_files
            /\ call_graph'.nodes = call_graph.nodes
            /\ \A e \in NewEdgeCalls(call_graph, call_graph') :
                  MayImplement(call_graph, cg_unreadable', e)
            /\ \A k \in 1..Len(call_graph.edges) :
                  \/ k \in KeptEdges(call_graph, call_graph')
                  \/ \E e \in NewEdgeCalls(call_graph, call_graph') :
                        /\ e.src = call_graph.edges[k].src
                        /\ e.dst = call_graph.edges[k].dst
            /\ \A k \in (Len(call_graph.edges) + 1)..Len(call_graph'.edges) :
                  \E e \in NewEdgeCalls(call_graph, call_graph') :
                      /\ e.src = call_graph'.edges[k].src
                      /\ e.dst = call_graph'.edges[k].dst
                      /\ call_graph'.edges[k].attrs = e.attrs]_vars
    /\ [][cg_pc = "results" => call_graph' = call_graph /\ cg_files' = cg_files]_vars

\* C26 witness: the pass has run over a.cs and b.cs with a.cs unreadable:
\* the class file b.cs gave the edge N.Repo implements N.IRepo, and the
\* classes of a.cs, of the same namespace as N.IRepo, were skipped
C26_Witness_EdgeAddedFileSkipped ==
    /\ cg_pc = "results"
    /\ cg_files = <<CsAlphaBeta, CsRepo>>
    /\ cg_unreadable = {"a.cs"}
    /\ HasEdgeOfKind(call_graph, <<"N", "Repo">>, <<"N", "IRepo">>, "implements")

\* the graph analyze_codebase builds from the records in the order given
GraphBuiltFrom(files, unreadable) ==
    BuildCrossFileRelationships(AnalyzeFiles(EmptyGraph, files), unreadable)

\* the (source, target) pairs of the edges
ConnectedPairs(G) == {<<G.edges[k].src, G.edges[k].dst>> : k \in 1..Len(G.edges)}

\* the orders in which the same records can be handed over
Reorderings(files) ==
    {[k \in 1..Len(files) |-> files[p[k]]] :
        p \in {q \in [1..Len(files) -> 1..Len(files)] :
                 \A a, b \in 1..Len(files) : a # b => q[a] # q[b]}}

\* C30: the node ids and the connected pairs of the finished graph are
\* those of the graph built from the same records in any other order
C30_OrderOfRecordsIrrelevant ==
    cg_pc \in {"results", "done"} =>
        /\ call_graph = GraphBuiltFrom(cg_files, cg_unreadable)
        /\ \A files \in Reorderings(cg_files) :
              LET G == GraphBuiltFrom(files, cg_unreadable)
              IN  /\ NodeIds(G) = NodeIds(call_graph)
                  /\ ConnectedPairs(G) = ConnectedPairs(call_graph)

MvcFamilies == {"controllers", "models", "views"}

\* the MVC entries of the reported patterns
ReportedMvc(result) ==
    {i \in 1..Len(result.patterns) :
        result.patterns[i].name = "MVC (Model-View-Controller)"}

\* nodes the build recorded with a file of the folder
FolderCount(G, folder) ==
    Cardinality({i \in 1..Len(G.nodes) :
                    HasMarker(Get(G.nodes[i].attrs, "file_path", ""), folder)})

\* C14: MVC is reported exactly when every family (controller, model,
\* view; a node counts in at most one) holds a node, with high confidence
\* when every family holds more than 2 nodes and medium otherwise; so the
\* three folders each contributing at least 3 entities yield MVC with high
\* confidence
C14_MvcFromFamiliesAndFolders ==
    cg_pc = "done" =>
        LET mvc == ReportedMvc(cg_result)
        IN  /\ mvc # {} <=> \A F \in MvcFamilies : MvcCount(call_graph, F) > 0
            /\ \A i \in mvc :
                  cg_result.patterns[i].confidence =
                     IF \A F \in MvcFamilies : MvcCount(call_graph, F) > 2
                     THEN "high" ELSE "medium"
            /\ (\A F \in MvcFamilies : FolderCount(call_graph, F) >= 3)
                  => \E i \in mvc : cg_result.patterns[i].confidence = "high"

(***************************************************************************)
(* Claims about pattern aggregation                                        *)
(***************************************************************************)
\* the buckets of patterns_found: the three categories and one per language
Buckets == Categories \cup Languages

BucketOf(found, b) ==
    IF b \in Languages THEN found.language_specific[b] ELSE found[b]

Named(list, n) == {i \in 1..Len(list) : list[i].name = n}

\* C3: after aggregation every (bucket, name) with raw observations has
\* exactly one finding, whose count is the number of those observations
\* of that bucket alone; it is high if one of them was high or the count
\* exceeds 2, and stays medium for at most two medium observations
C3_MergeByCategoryAndName ==
    pat_pc = "done" =>
        \A b \in Buckets, n \in PatternNames :
            LET raw == BucketOf(pat_observed, b)
                out == BucketOf(patterns_found, b)
                obs == Named(raw, n)
            IN  /\ Cardinality(Named(out, n)) = (IF obs = {} THEN 0 ELSE 1)
                /\ \A i \in Named(out, n) :
                      /\ out[i].count = Cardinality(obs)
                      /\ ((\E k \in obs : raw[k].confidence = "high")
                              \/ Cardinality(obs) > 2)
                            => out[i].confidence = "high"
                      /\ ((\A k \in obs : raw[k].confidence = "medium")
                              /\ Cardinality(obs) <= 2)
                            => out[i].confidence = "medium"

\* C3 witness: three medium observations of one name were merged in one
\* category
C3_Witness_ThirdPromotes ==
    /\ pat_pc = "done"
    /\ Len(pat_observed.design_patterns) = 3
    /\ \A k \in 1..3 :
          /\ pat_observed.design_patterns[k].name = "Factory Pattern"
          /\ pat_observed.design_patterns[k].confidence = "medium"
    /\ Len(patterns_found.design_patterns) = 1
    /\ patterns_found.design_patterns[1].confidence = "high"

\* the finding lists of a report: the three categories and each language
FindingLists(found) ==
    {found.design_patterns, found.architectural_patterns,
     found.code_organization}
        \cup {found.language_specific[l] : l \in Languages}

\* confidence c is strictly above confidence d
ConfidenceAbove(c, d) ==
    \/ c = "high" /\ d \in {"medium", "low"}
    \/ c = "medium" /\ d = "low"

\* C12: after aggregation every finding list is ordered by confidence
\* descending and, among findings of equal confidence, by count descending
C12_ListsSortedByConfidenceThenCount ==
    pat_pc = "done" =>
        \A list \in FindingLists(patterns_found) :
            \A i, j \in 1..Len(list) :
                i < j =>
                    \/ ConfidenceAbove(list[i].confidence, list[j].confidence)
                    \/ /\ list[i].confidence = list[j].confidence
                       /\ list[i].count >= list[j].count

\* C12 witness: a finished aggregation whose design list holds two
\* findings of equal confidence that the merge produced in the other order
C12_Witness_Reordered ==
    /\ pat_pc = "done"
    /\ Len(patterns_found.design_patterns) = 2
    /\ patterns_found.design_patterns[1].confidence
          = patterns_found.design_patterns[2].confidence
    /\ patterns_found.design_patterns[1].count
          > patterns_found.design_patterns[2].count
    /\ MergeObservations(<<>>, pat_observed.design_patterns)[1]
          = patterns_found.design_patterns[2]

\* C13: the sources of a merged finding form a set: after aggregation no
\* provenance string occurs twice in the sources of a finding
C13_SourcesFormASet ==
    pat_pc = "done" =>
        \A list \in FindingLists(patterns_found) :
            \A i \in 1..Len(list) :
                \A j, k \in 1..Len(list[i].sources) :
                    list[i].sources[j] = list[i].sources[k] => j = k

\* the di_registration edges of the results the detector was handed
HandedDiEdges ==
    LET edges == Get(call_graph_results, "edges", <<>>)
    IN  {i \in 1..Len(edges) : edges[i].type = "di_registration"}

\* C15: when the graph handed to the pattern detector holds a
\* di_registration edge, the report holds a Dependency Injection finding in
\* the architectural category
C15_DiEdgeGivesArchitecturalFinding ==
    pat_pc = "done" /\ HandedDiEdges # {} =>
        \E i \in 1..Len(patterns_found.architectural_patterns) :
            patterns_found.architectural_patterns[i].name = "Dependency Injection"

\* score a is at least score b, both fractions
ScoreAtLeast(a, b) == a[1] * b[2] >= b[1] * a[2]

\* C20: the central components are min(10, number of nodes) distinct
\* nodes in non-increasing order of degree centrality, no node left out
\* has a strictly higher degree than a listed one, nodes of equal score
\* stand in the order the build inserted them, and the list is the one the
\* file records, in their order, determine
C20_CentralComponentsRanked ==
    cg_pc = "done" =>
        LET list == cg_result.central_components
            G == call_graph
            listed == {list[i].id : i \in 1..Len(list)}
        IN  /\ Len(list) = IF Len(G.nodes) < 10 THEN Len(G.nodes) ELSE 10
            /\ Cardinality(listed) = Len(list)
            /\ \A i \in 1..Len(list) :
                  /\ list[i].id \in NodeIds(G)
                  /\ list[i].centrality = Centrality(G, list[i].id)
            /\ \A i, j \in 1..Len(list) :
                  i < j =>
                     /\ ScoreAtLeast(list[i].centrality, list[j].centrality)
                     /\ Degree(G, list[i].id) = Degree(G, list[j].id)
                           => NodeData(G, list[i].id) < NodeData(G, list[j].id)
            /\ \A m \in NodeIds(G) \ listed :
                  \A i \in 1..Len(list) :
                     /\ Degree(G, m) <= Degree(G, list[i].id)
                     /\ Degree(G, m) = Degree(G, list[i].id)
                           => NodeData(G, list[i].id) < NodeData(G, m)
            /\ list = CentralComponents(
                         BuildCrossFileRelationships(
                             AnalyzeFiles(EmptyGraph, cg_files), cg_unreadable))

\* C20 witness: a finished build of more than 10 nodes, whose list holds
\* nodes of different scores and nodes of equal score and leaves a node out
C20_Witness_Truncated ==
    /\ cg_pc = "done"
    /\ Len(call_graph.nodes) > 10
    /\ Len(cg_result.central_components) = 10
    /\ \E i, j \in 1..10 :
          /\ i < j
          /\ cg_result.central_components[i].centrality
                # cg_result.central_components[j].centrality
    /\ \E i, j \in 1..10 :
          /\ i < j
          /\ cg_result.central_components[i].centrality
                = cg_result.central_components[j].centrality

\* the view holds one node entry per node of G and one link per edge of
\* G, with the edge's source, target and type
ViewMatches(view, G) ==
    /\ Len(view.nodes) = Len(G.nodes)
    /\ \A n \in NodeIds(G) :
          Cardinality({i \in 1..Len(view.nodes) : view.nodes[i].id = n}) = 1
    /\ Len(view.links) = Len(G.edges)
    /\ \A k \in 1..Len(G.edges) :
          Cardinality({i \in 1..Len(view.links) :
                          /\ view.links[i].source = G.edges[k].src
                          /\ view.links[i].target = G.edges[k].dst
                          /\ view.links[i].type =
                                Get(G.edges[k].attrs, "type", "unknown")}) = 1

\* C18: a step that exports the graph leaves the builder's nodes, edges
\* and attributes as they were, and the exported view holds exactly one
\* entry per node and one link per edge with the edge's source, target and
\* type
C18_ExportIsPureProjection ==
    [][cg_export' # cg_export =>
          /\ call_graph' = call_graph
          /\ ViewMatches(cg_export', call_graph')]_vars

\* C18 witness: an export of a graph with several nodes and edges,
\* among them edges of two kinds
C18_Witness_ExportedGraph ==
    /\ cg_export # NoResult
    /\ Len(cg_export.nodes) >= 3
    /\ \E i, j \in 1..Len(cg_export.links) :
          cg_export.links[i].type # cg_export.links[j].type

\* the value the last insert call for node n that gave attribute key
\* recorded, "unknown" when no call gave it
RecordedAttr(G, n, key) == Get(MergedLog(G.log, n), key, "unknown")

\* a node entry carries the kind, language and file path recorded for its
\* node
EntryCarriesRecorded(G, entry) ==
    /\ entry.type = RecordedAttr(G, entry.id, "type")
    /\ entry.code_language = RecordedAttr(G, entry.id, "language")
    /\ entry.file_path = RecordedAttr(G, entry.id, "file_path")

\* C19: every node entry of the exported graph and of the analysis result
\* carries the kind, language and file path recorded at insertion; a node
\* inserted with a language is not exported with language unknown
C19_EntriesCarryRecordedAttributes ==
    /\ cg_export # NoResult =>
          \A i \in 1..Len(cg_export.nodes) :
              EntryCarriesRecorded(call_graph, cg_export.nodes[i])
    /\ cg_pc = "done" =>
          \A i \in 1..Len(cg_result.nodes) :
              EntryCarriesRecorded(call_graph, cg_result.nodes[i])

\* the graph a request's own files give on an analyzer of its own
OwnGraph(r) == AnalyzeCodebase(EmptyGraph, hd_file_infos[r])

\* C17: requests on one handler do not interfere: what a request got,
\* whether it ran after or during another, is the graph result, the export
\* and the pattern report of its own files alone
C17_RunsDoNotInterfere ==
    \A r \in Requests :
        hd_pc[r] \in {"analyzed", "returned"} =>
            /\ hd_results[r].call_graph = GenerateAnalysisResults(OwnGraph(r))
            /\ hd_results[r].export = ExportGraphToJson(OwnGraph(r))
            /\ hd_results[r].patterns =
                  ExtractPatterns(EmptyPatterns, hd_file_infos[r],
                      HandlerCallGraph(GenerateAnalysisResults(OwnGraph(r))))

\* C17 witness: both requests are through their analysis, on different
\* files that give nodes and findings, and one ran while the other was
\* under way
C17_Witness_OverlappingRequests ==
    /\ \A r \in Requests : hd_pc[r] \in {"analyzed", "returned"}
    /\ hd_file_infos[1] = <<CsRepo>>
    /\ hd_file_infos[2] = <<CsAlphaBeta, PyBeta>>
    /\ hd_results[1].concurrent /\ hd_results[2].concurrent
    /\ hd_results[1].call_graph.node_count > 0
    /\ hd_results[2].call_graph.node_count > 0
    /\ hd_results[1].patterns # hd_results[2].patterns

\* the findings of a report that name the call graph analysis as a source
GraphFindings(report) ==
    {i \in 1..Len(report.design_patterns) :
        \E j \in 1..Len(report.design_patterns[i].sources) :
            report.design_patterns[i].sources[j] = CallGraphSource}
    \cup {i \in 1..Len(report.architectural_patterns) :
            \E j \in 1..Len(report.architectural_patterns[i].sources) :
                report.architectural_patterns[i].sources[j] = CallGraphSource}

\* C24: the pattern report of a request is made after its graph analysis
\* and from it: when the analysis of the request's files reports a
\* graph-derived pattern, the request's pattern report holds a finding
\* that comes from the call graph analysis
C24_GraphSignalsReachReport ==
    \A r \in Requests :
        hd_pc[r] \in {"analyzed", "returned"} =>
            (hd_results[r].call_graph.patterns # <<>>
                => GraphFindings(hd_results[r].patterns) # {})

(***************************************************************************)
(* Claims about the generic chunker                                        *)
(***************************************************************************)
ChunkLength(c) == JoinedLength(ch_lines, c.lines)

\* C4: when no single line is longer than max_chunk_size, every emitted
\* chunk is at most max_chunk_size characters long
C4_ChunksWithinMaxSize ==
    (\A k \in 1..Len(ch_lines) : ch_lines[k] <= max_chunk_size) =>
        \A i \in 1..Len(chunks) : ChunkLength(chunks[i]) <= max_chunk_size

\* the lines of chunk i that are not the overlap seeded from chunk i - 1
OwnLines(i) ==
    IF i = 1 THEN chunks[1].lines
    ELSE LET n == Min(overlap_lines, chunks[i - 1].line_count)
         IN  SubSeq(chunks[i].lines, n + 1, Len(chunks[i].lines))

RECURSIVE Reconstructed(_)
Reconstructed(i) ==
    IF i = 0 THEN <<>> ELSE Reconstructed(i - 1) \o OwnLines(i)

\* C5: the chunks without their leading overlap lines, concatenated in
\* order, are the lines of the content
C5_ChunksReconstructContent ==
    ch_pc = "done" =>
        Reconstructed(Len(chunks)) = [k \in 1..Len(ch_lines) |-> k]


\* chunk k + 1 starts with the last min(5, n) lines of chunk k and the
\* line after them, the one the loop was taking when it stored chunk k
SeededFromPrevious(k) ==
    LET previous == chunks[k].lines
        n == Len(previous)
        kept == IF n < overlap_lines THEN n ELSE overlap_lines
        next == chunks[k + 1].lines
    IN  /\ Len(next) >= kept + 1
        /\ \A j \in 1..kept : next[j] = previous[n - kept + j]
        /\ next[kept + 1] = previous[n] + 1

\* C25: in the line loop a chunk is stored exactly when the next line
\* would take the accumulated size over max_chunk_size while that size is
\* already over min_chunk_size, the stored chunk is the accumulated lines,
\* and every chunk after the first starts with the last min(5, n) lines of
\* the chunk before it followed by the line that triggered the close
C25_ClosesOnSizeAndSeedsOverlap ==
    /\ [][(ch_pc = "loop" /\ ch_idx <= Len(ch_lines)) =>
            IF /\ current_size + (ch_lines[ch_idx] + 1) > max_chunk_size
               /\ current_size > min_chunk_size
            THEN /\ Len(chunks') = Len(chunks) + 1
                 /\ Last(chunks').lines = current_chunk
            ELSE chunks' = chunks]_vars
    /\ [](\A k \in 1..(Len(chunks) - 1) : SeededFromPrevious(k))

\* C25 witness: a finished split whose first chunk holds more than 5
\* lines and is followed by a chunk seeded with its last 5
C25_Witness_OverlapOfFive ==
    /\ ch_pc = "done"
    /\ Len(chunks) >= 2
    /\ chunks[1].line_count > 5
    /\ chunks[2].lines[1] = chunks[1].lines[chunks[1].line_count - 4]

(***************************************************************************)
(* Claims about the codebase-analysis run                                  *)
(***************************************************************************)
\* the step takes a file from the work list
TakesFile == run_pc = "loop" /\ run_idx' = run_idx + 1

\* exactly one entry, for the file taken, is appended to the list
AppendsTaken(list) ==
    /\ Len(list') = Len(list) + 1
    /\ SubSeq(list', 1, Len(list)) = list
    /\ list'[Len(list')].file_path = all_files_to_process[run_idx]

\* C29: a file taken from the work list is appended to the file results
\* and counted, or appended to the error list, and never both; no path is
\* in both lists; the file count is its value at the start of the run plus
\* the number of file results
C29_OneOutcomePerFile ==
    /\ [][TakesFile =>
            \/ /\ AppendsTaken(file_results)
               /\ file_count' = file_count + 1
               /\ error_files' = error_files
            \/ /\ AppendsTaken(error_files)
               /\ file_count' = file_count
               /\ file_results' = file_results]_vars
    /\ [](PathsOf(file_results) \cap PathsOf(error_files) = {})
    /\ [][IF run_count' # run_count
          THEN file_results' = <<>> /\ error_files' = <<>>
          ELSE file_count' - Len(file_results') = file_count - Len(file_results)]_vars

\* C29 witness: a run resumed from a checkpoint of one file has one file
\* in the results, counted as the second, and another in the error list
C29_Witness_ResumedResultAndError ==
    /\ run_pc = "loop"
    /\ run_params.resume_from_checkpoint
    /\ Len(file_results) = 1 /\ file_count = 2
    /\ Len(error_files) = 1

\* checkpoint d was written before checkpoint c: in an earlier run, or in
\* the same run at a smaller count
WrittenBefore(d, c) ==
    \/ d.timestamp < c.timestamp
    \/ d.timestamp = c.timestamp /\ d.file_count < c.file_count

\* C27: a run that resumes loads the checkpoint written last, the one of
\* the greatest file count: it starts from that checkpoint's count and
\* skips that checkpoint's paths
C27_ResumeLoadsLatestWritten ==
    [][(/\ run_count' = run_count + 1
        /\ run_params'.resume_from_checkpoint
        /\ checkpoints # {}) =>
          \E c \in checkpoints :
              /\ \A d \in checkpoints : d = c \/ WrittenBefore(d, c)
              /\ file_count' = c.file_count
              /\ processed_files' = CheckpointPaths(c)]_vars

\* the last file step recorded the file in the error list
StepRecorded ==
    \E i \in 1..Len(error_files) : error_files[i].file_path = last_step.file_path

\* C6 (as amended): when extraction, documentation extraction or chunking
\* of one file raises, the file's path and error are appended to the run's
\* error list, the file results and the count are left as they were, and
\* the loop goes on with the next file (it ends after the last file of a
\* batch when the count has reached the file limit); when only the storage
\* of the file fails, nothing is recorded in the error list and the file is
\* appended to the file results and counted as processed.
C6_RaisedFileRecordedRunContinues ==
    /\ last_step.outcome = "raised" =>
         /\ error_files = Append(last_step.error_files,
                [file_path |-> last_step.file_path, error |-> last_step.error])
         /\ file_results = last_step.file_results
         /\ file_count = last_step.file_count
         /\ run_idx = last_step.index + 1
         /\ run_pc = IF EndsBatch(last_step.index) /\ LimitReached(file_count)
                     THEN "limit" ELSE "loop"
    /\ last_step.outcome = "storage_failed" =>
         /\ error_files = last_step.error_files
         /\ file_results = Append(last_step.file_results,
                [file_path |-> last_step.file_path])
         /\ file_count = last_step.file_count + 1

\* a file raised after another file had been recorded, and a further file
\* is still to be processed
C6_Witness_RaisedBetweenFiles ==
    /\ last_step.outcome = "raised"
    /\ last_step.file_results # <<>>
    /\ run_pc = "loop"
    /\ run_idx <= Len(all_files_to_process)

\* C6 (as stated): a file whose extraction, documentation extraction,
\* chunking or storage failed is recorded in the run's error list.
C6_EveryFailureRecorded ==
    last_step.outcome \in {"raised", "storage_failed"} => StepRecorded

\* C7: in a run resumed from a checkpoint, every file that had been
\* processed before that checkpoint was written is excluded from the
\* files to process.
C7_ResumeExcludesProcessed ==
    \A i \in 1..Len(all_files_to_process) :
        all_files_to_process[i] \notin run_inherited

\* C8: the result a run returns carries a list of errors that names every
\* file that failed in the run.
C8_ResultNamesFailedFiles ==
    (run_pc = "returned" /\ error_files # <<>>) =>
        /\ "errors" \in DOMAIN run_result
        /\ \A f \in PathsOf(error_files) : f \in PathsOf(run_result.errors)

\* C16: in a run, fresh or resumed, the number of files counted as
\* processed never exceeds the file limit the caller gave, and the count
\* the run returns does not either
C16_CountWithinFileLimit ==
    /\ run_pc \in {"loop", "limit"} => file_count <= run_params.file_limit
    /\ run_pc = "returned" => run_result.file_count <= run_params.file_limit

(***************************************************************************)
(* Claims about the extractor dispatch                                     *)
(***************************************************************************)
\* C9: a call without content on a path that cannot be read returns a dict
\* with an error entry, does not raise, and runs no extractor.
C9_UnreadableReturnsError ==
    (ex_pc # "idle" /\ ~HasContent(ex_call)) =>
        /\ ex_pc = "returned"
        /\ "error" \in DOMAIN ex_result
        /\ ex_ran = <<>>

\* a Python file that does not exist was asked for without content
C9_Witness_MissingPythonFile ==
    /\ ex_pc = "returned"
    /\ ex_call.content = None
    /\ ex_call.on_disk = "missing"
    /\ ex_call.language = "python"
    /\ "error" \in DOMAIN ex_result

SupportedTags == CsharpTags \cup TypescriptTags \cup JavascriptTags \cup PythonTags

\* the generic extractor's result for the content the call worked on
GenericResultFor(call) ==
    ExtractGenericKnowledge(call.file_path,
        IF call.content # None THEN call.content ELSE call.on_disk,
        IF Lower(call.language) \in PythonTags
        THEN "python" ELSE call.language).result

\* C10: a call with a language tag outside the supported sets returns the
\* generic extractor's result; a failure inside a language-specific
\* extractor is answered with the generic extractor's result; no call that
\* has a content raises.
C10_FailuresRoutedToGeneric ==
    (ex_pc # "idle" /\ HasContent(ex_call)) =>
        /\ ex_pc = "returned"
        /\ Lower(ex_call.language) \notin SupportedTags =>
              ex_result = GenericResultFor(ex_call)
        /\ (Lower(ex_call.language) \in PythonTags
               /\ AstParse(IF ex_call.content # None
                           THEN ex_call.content ELSE ex_call.on_disk) # "tree") =>
              ex_result = GenericResultFor(ex_call)

(***************************************************************************)
(* Claims about the methods listed under a class                           *)
(***************************************************************************)
\* the lines of the block the class line at opens, to the end of the text
\* when the block is not closed
ClassBody(text, at) == (at + 1)..BlockEnd(text, at)

\* the class whose header is line at has a method of that name in its block
DeclaresMethod(text, at, name) ==
    \E k \in ClassBody(text, at) : text[k] = MethodLine(name)

\* the header lines of the classes a record lists, in the record's order
ListedClassLines(text, record) ==
    IF record.code_language = "python" /\ Parses(text)
    THEN SelectSeq(LinesOfKind(text, "class"), LAMBDA k : Depth(text, k) = 0)
    ELSE LinesOfKind(text, "class")

\* C28: every method the extractor lists under a class is declared inside
\* the block of that class, in C#, TypeScript and Python, and every
\* contains edge of the graph built from the record leads from a class to
\* a method declared in the block of a class of that name
C28_MethodsInsideOwnClass ==
    ex_pc = "returned" =>
        LET text == ex_call.content
            at == ListedClassLines(text, ex_result)
        IN  /\ Len(ex_result.classes) = Len(at)
            /\ \A n \in 1..Len(at) :
                  \A m \in 1..Len(ex_result.classes[n].methods) :
                      DeclaresMethod(text, at[n], ex_result.classes[n].methods[m].name)
            /\ cg_files = <<ex_result>> =>
                  \A e \in 1..Len(call_graph.edges) :
                      call_graph.edges[e].attrs.type = "contains" =>
                          \E k \in 1..Len(text) :
                              /\ text[k] = ClassLine(call_graph.edges[e].src[Len(call_graph.edges[e].src)])
                              /\ DeclaresMethod(text, k,
                                    call_graph.edges[e].dst[Len(call_graph.edges[e].dst)])

(***************************************************************************)
(* Claims about chunk_file and the language chunkers                       *)
(***************************************************************************)
\* C22: chunk_file raises for no content and no language tag, and the
\* list it returns holds at least one chunk
C22_ChunkFileReturnsChunks ==
    /\ cf_pc # "raised"
    /\ cf_pc = "returned" => Len(cf_chunks) >= 1

\* the class declarations the chunker of the call's language finds
FoundClasses(call) ==
    IF Lower(call.language) \in CsharpTags
    THEN Matches(call.content, CsClassOffset)
    ELSE IF Lower(call.language) \in TypescriptTags \cup JavascriptTags
    THEN Matches(call.content, TsClassOffset)
    ELSE <<>>

\* the braces from the first opening brace at or after from
BracesOfDeclaration(content, from) ==
    LET after == SelectSeq(Braces(content), LAMBDA b : b.pos >= from)
        opens == {k \in 1..Len(after) : after[k].delta = 1}
    IN  IF opens = {} THEN <<>>
        ELSE SubSeq(after, CHOOSE k \in opens : \A l \in opens : k <= l, Len(after))

\* the braces that close the first of bs: as many } as { up to them
ClosingBraces(bs) ==
    {k \in 1..Len(bs) : SumSeq([l \in 1..k |-> bs[l].delta]) = 0}

\* C23: for every brace-delimited class declaration the C# or TypeScript
\* chunker finds: a span of at most max_chunk_size characters gives
\* exactly one chunk, holding the span from the declaration start to the
\* brace that closes its first opening brace; a longer span gives one
\* declaration chunk of at most max_chunk_size characters first and after
\* it only method chunks that lie in the span
C23_ClassSpanChunks ==
    cf_pc = "returned" =>
        \A n \in 1..Len(FoundClasses(cf_call)) :
            LET m == FoundClasses(cf_call)[n]
                bs == BracesOfDeclaration(cf_call.content, m.start)
                closing == ClosingBraces(bs)
                stop == bs[CHOOSE k \in closing : \A l \in closing : k <= l].pos + 1
                own == {k \in 1..Len(cf_chunks) : cf_chunks[k].decl = m.line}
            IN  closing # {} =>
                    IF stop - m.start <= max_chunk_size
                    THEN /\ Cardinality(own) = 1
                         /\ \A k \in own :
                               /\ cf_chunks[k].start = m.start
                               /\ cf_chunks[k].stop = stop
                    ELSE \E k \in own :
                            /\ cf_chunks[k].type = "class_declaration"
                            /\ cf_chunks[k].start = m.start
                            /\ cf_chunks[k].stop - cf_chunks[k].start <= max_chunk_size
                            /\ \A l \in own \ {k} :
                                  /\ k < l
                                  /\ cf_chunks[l].type = "method"
                                  /\ cf_chunks[l].start > m.start
                                  /\ cf_chunks[l].stop <= stop

====
